---- MODULE Spec2Model ----
(***************************************************************************)
(* The offline cache of the flashcard application (src/lib/offlineCache.ts) *)
(* as a state machine.  The module-level state of that file (dbPromise,     *)
(* audioObjectUrls, isBrowser) and the two IndexedDB object stores are the  *)
(* variables; every exported async function is a call that runs as a task,  *)
(* one action per stretch of code between two awaits.                       *)
(*                                                                         *)
(* Scheduling: one thread.  A continuation that waits on an already        *)
(* resolved promise (await getDb() once the database is open) is a          *)
(* microtask and runs before any other event (MacroReady).  A database      *)
(* request takes effect when its completion is delivered, and the code      *)
(* after the await runs in the same step.  Requests on one object store     *)
(* are served in creation order, except that reads do not wait for reads    *)
(* (txq, CanRun).                                                           *)
(***************************************************************************)
EXTENDS Integers, Sequences, FiniteSets, TLC

\* Bounds of the model.
MaxNow == 2         \* Date.now() readings, one per cacheCardOffline call
MaxUrls == 2        \* object URLs in use at one time

CardIds == {"c1", "c2"}
Stores == {"cards", "audio"}
Slots == {1, 2}                \* at most two calls are in flight at a time
Listeners == {"l1", "l2"}      \* the callbacks passed to subscribeOfflineStatus
UiListener == "ui"             \* the callback the card list subscribes
CollectionIds == {"col-a", "col-b"}

\* URLs: null, the remote audio URL of a card, blob: URLs made by the browser.
NullUrl == [scheme |-> "null", n |-> 0]
RemoteUrl == [scheme |-> "https", n |-> 0]
ObjectUrl(n) == [scheme |-> "blob", n |-> n]

\* A card snapshot: its identity and its remote audio URL (string | null).
Flashcard == [id : CardIds, audio_url : {NullUrl, RemoteUrl}]
NoCard == [id |-> "-", audio_url |-> NullUrl]

\* What fetch(card.audio_url) can do: reject, answer with a non-ok status, answer ok.
FetchOutcomes == {"neterr", "http404", "ok"}

VARIABLES
  isBrowser,        \* typeof window !== 'undefined'
  listeners,        \* Set<OfflineStatusListener>, in insertion order
  unsubscribed,     \* the listeners whose unsubscribe function was called last
  dbPromise,        \* "null" | "pending" | "open" | "rejected"
  opens,            \* how many times openDB has been called
  cards,            \* object store 'cards': key -> [card, cachedAt, audioStored,
                    \*   collectionIds]
  audio,            \* object store 'audio': key -> [cardId, blob, cachedAt]
  audioObjectUrls,  \* Map<cardId, object URL>
  blobUrlStore,     \* the browser's live object URLs: {[url, cardId, blob]}
  now,              \* Date.now(): a reading per cacheCardOffline call, each later than the last
  txq,              \* per store, the pending database requests in creation order
  offlineStatusMap, \* the card list's view of the cache, built from the events
  swCaches,         \* the service worker's caches: name -> (URL -> stored response)
  fetchEvents,      \* the fetch events the service worker is handling
  tasks             \* the calls: slot -> activation record

vars == <<isBrowser, listeners, unsubscribed, dbPromise, opens, cards, audio,
          audioObjectUrls, blobUrlStore, now, txq, offlineStatusMap, swCaches,
          fetchEvents, tasks>>

\* The state of the offline cache and of the card list.
pageVars == <<isBrowser, listeners, unsubscribed, dbPromise, opens, cards, audio,
              audioObjectUrls, blobUrlStore, now, txq, offlineStatusMap, tasks>>

IdleTask ==
  [op |-> "none", pc |-> "idle", cardId |-> "-", card |-> NoCard,
   fallback |-> NullUrl, cachedAt |-> 0, audioStored |-> FALSE,
   pending |-> {}, result |-> {}, emitted |-> <<>>, steps |-> <<>>,
   revoked |-> NullUrl, hadAudio |-> FALSE, hadCard |-> FALSE, solo |-> TRUE,
   heard |-> <<>>, subsAtStart |-> {}, offAtStart |-> {}, hadUrl |-> FALSE,
   collectionIds |-> {}, handled |-> TRUE, raced |-> FALSE, lateCall |-> FALSE]

Finished == {"done", "failed"}
InFlight(t) == tasks[t].pc \notin ({"idle"} \cup Finished)

\* Microtasks run before any other event is handled: a stretch of code that
\* waits only on the settled dbPromise, and the caller's continuation on a
\* settled call (Collect).
MacroReady ==
  ~ \E t \in Slots :
      \/ tasks[t].pc = "db" /\ dbPromise \in {"open", "rejected"}
      \/ tasks[t].pc \in Finished

\* New calls take the lowest free slot.
FreeSlot(t) ==
  /\ tasks[t].pc = "idle"
  /\ \A u \in Slots : u < t => tasks[u].pc # "idle"

(***************************************************************************)
(* History of a call, kept for the properties: steps (what it has done, in  *)
(* order), emitted (what it passed to emit), revoked (the URL it passed to  *)
(* URL.revokeObjectURL), hadAudio (the audio store held a record for its    *)
(* identity when it started), hadCard (the cards store held one),           *)
(* solo (no other call writing the same identity overlapped it),      *)
(* heard (the listeners its emit invoked, in order, and whether each threw), *)
(* subsAtStart and offAtStart (the listeners subscribed, and unsubscribed,  *)
(* when it started), hadUrl (for getPlayableAudioUrl: the map held a URL    *)
(* for its identity when it started), handled (the caller awaits the call   *)
(* in a try block or attaches a catch handler to its promise), raced (a      *)
(* card was deleted from the list while a cacheCardOffline call for it was  *)
(* in flight: set in that call and in the removal handleDeleteCard starts),  *)
(* lateCall (the open had been rejected when the call started).             *)
(***************************************************************************)
Range(seq) == {seq[i] : i \in DOMAIN seq}
Writers == {"cache", "remove", "clear", "update"}
Conflicts(op1, id1, op2, id2) ==
  /\ op1 \in Writers
  /\ op2 \in Writers
  /\ (op1 = "clear" \/ op2 = "clear" \/ id1 = id2)

\* The task table after slot t starts a call of op on id with record rec.
Started(t, op, id, rec) ==
  [u \in Slots |->
     IF u = t
       THEN [rec EXCEPT !.lateCall = (dbPromise = "rejected"),
                        !.hadAudio = (op \in {"cache", "remove", "update"}
                                        /\ id \in DOMAIN audio),
                        !.hadCard = (op \in {"cache", "remove", "update"}
                                       /\ id \in DOMAIN cards),
                        !.hadUrl = (op = "play" /\ id \in DOMAIN audioObjectUrls),
                        !.subsAtStart =
               IF op \in {"cache", "remove"} THEN Range(listeners) ELSE {},
                        !.offAtStart =
               IF op \in {"cache", "remove"} THEN unsubscribed ELSE {},
                        !.solo =
               ~ \E w \in Slots \ {t} :
                   InFlight(w) /\ Conflicts(op, id, tasks[w].op, tasks[w].cardId)]
       ELSE IF tasks[u].pc # "idle" /\ Conflicts(op, id, tasks[u].op, tasks[u].cardId)
              THEN [tasks[u] EXCEPT !.solo = FALSE]
              ELSE tasks[u]]

(***************************************************************************)
(* getDb (lines 43-62): the first call starts the open, later calls share   *)
(* the promise.                                                             *)
(***************************************************************************)
\* Mutant of GetDb: a rejected open is forgotten and the next call opens again.
GetDbRetries == IF dbPromise \in {"null", "rejected"} THEN "pending" ELSE dbPromise

GetDb == IF dbPromise = "null" THEN "pending" ELSE dbPromise

\* Mutant of OpensAfterGetDb: the guard tests the opened database, not the
\* promise, so a call made while the open is pending opens again.
OpensAfterGetDbWhilePending == IF dbPromise # "open" THEN opens + 1 ELSE opens

\* openDB is called when dbPromise is null, and only then.
OpensAfterGetDb == IF dbPromise = "null" THEN opens + 1 ELSE opens

\* openDB resolves: the upgrade callback has created both stores.
OpenDbDone ==
  /\ MacroReady
  /\ dbPromise = "pending"
  /\ dbPromise' = "open"
  /\ opens' = opens
  /\ UNCHANGED <<isBrowser, swCaches, fetchEvents, offlineStatusMap,
                 listeners, unsubscribed, cards, audio, audioObjectUrls,
                 blobUrlStore, txq, tasks, now>>

(***************************************************************************)
(* Database requests.                                                       *)
(***************************************************************************)
Enqueue(q, s, t, m) == [q EXCEPT ![s] = Append(@, [t |-> t, mode |-> m])]
PosIn(s, t) == CHOOSE i \in 1..Len(txq[s]) : txq[s][i].t = t
Queued(s, t) == \E i \in 1..Len(txq[s]) : txq[s][i].t = t
\* A request runs once no earlier request on the store conflicts with it.
CanRun(s, t) ==
  /\ Queued(s, t)
  /\ LET i == PosIn(s, t) IN
       \A j \in 1..(i - 1) :
         txq[s][j].mode = "r" /\ txq[s][i].mode = "r"
Dequeue(q, s, t) ==
  [q EXCEPT ![s] = SelectSeq(@, LAMBDA e : e.t # t)]

\* Mutant of Put: an insert that does not replace (add in place of put).
PutKeepsExisting(store, key, value) ==
  [k \in DOMAIN store \cup {key} |-> IF k \in DOMAIN store THEN store[k] ELSE value]

\* put (insert or replace) and delete by key.
Put(store, key, value) ==
  [k \in DOMAIN store \cup {key} |-> IF k = key THEN value ELSE store[k]]
Delete(store, key) == [k \in DOMAIN store \ {key} |-> store[k]]

(***************************************************************************)
(* revokeAudioObjectUrl (lines 74-80) and emit (lines 64-72).               *)
(***************************************************************************)
ExistingUrl(map, cardId) == IF cardId \in DOMAIN map THEN map[cardId] ELSE NullUrl
\* audioObjectUrls after the call
RevokedMap(map, cardId) == Delete(map, cardId)
\* Mutant of RevokedStore: every live object URL is revoked, not only the
\* one of the card.
RevokedStoreRevokesAll(map, store, cardId) == {}

\* Mutant of RevokedStore: the map entry is dropped, the URL is not revoked.
RevokedStoreKeepsUrl(map, store, cardId) == store

\* the browser's live URLs after the call
RevokedStore(map, store, cardId) ==
  {h \in store : h.url # ExistingUrl(map, cardId)}

Detail(cardId, cached, audioStored) ==
  [cardId |-> cardId, cached |-> cached, audioStored |-> audioStored]

\* Mutant of Subscribe: the channel replays to a new listener the events of
\* the cards cached so far.
SubscribeReplays(l) ==
  /\ MacroReady
  /\ listeners' = IF l \in Range(listeners) THEN listeners ELSE Append(listeners, l)
  /\ unsubscribed' = unsubscribed \ {l}
  /\ offlineStatusMap' =
       IF l = UiListener
         THEN [k \in DOMAIN cards |-> [audioStored |-> cards[k].audioStored]]
         ELSE offlineStatusMap
  /\ UNCHANGED <<isBrowser, swCaches, fetchEvents, dbPromise, opens, cards,
                 audio, audioObjectUrls, blobUrlStore, now, txq, tasks>>

\* subscribeOfflineStatus (lines 82-87): listeners.add; adding a listener the
\* set already holds changes nothing.
Subscribe(l) ==
  /\ MacroReady
  /\ listeners' = IF l \in Range(listeners) THEN listeners ELSE Append(listeners, l)
  /\ unsubscribed' = unsubscribed \ {l}
  /\ UNCHANGED <<isBrowser, swCaches, fetchEvents, offlineStatusMap,
                 dbPromise, opens, cards, audio, audioObjectUrls,
                 blobUrlStore, now, txq, tasks>>

\* Mutant of Unsubscribe: the returned function deletes nothing.
UnsubscribeKeeps(l) ==
  /\ MacroReady
  /\ l \in Range(listeners) \cup unsubscribed
  /\ unsubscribed' = unsubscribed \cup {l}
  /\ UNCHANGED <<isBrowser, swCaches, fetchEvents, offlineStatusMap,
                 listeners, dbPromise, opens, cards, audio, audioObjectUrls,
                 blobUrlStore, now, txq, tasks>>

\* The function subscribeOfflineStatus returned is called: listeners.delete.
Unsubscribe(l) ==
  /\ MacroReady
  /\ l \in Range(listeners) \cup unsubscribed
  /\ listeners' = SelectSeq(listeners, LAMBDA x : x # l)
  /\ unsubscribed' = unsubscribed \cup {l}
  /\ UNCHANGED <<isBrowser, swCaches, fetchEvents, offlineStatusMap,
                 dbPromise, opens, cards, audio, audioObjectUrls,
                 blobUrlStore, now, txq, tasks>>

Invoked(ls, throwers, n) ==
  [i \in 1..n |-> [listener |-> ls[i], threw |-> ls[i] \in throwers]]

\* Mutant of Emit: no try/catch around the listener, so the first listener
\* that throws ends the forEach and the exception leaves emit.
EmitUncaught(ls, throwers) ==
  LET bad == {i \in 1..Len(ls) : ls[i] \in throwers}
      stop == IF bad = {} THEN Len(ls)
              ELSE CHOOSE i \in bad : \A j \in bad : i <= j
  IN [heard |-> Invoked(ls, throwers, stop), threw |-> bad # {}]

\* emit (lines 64-72) over the listeners ls, those in throwers throwing: every
\* listener is invoked in the set's order, an exception is caught and logged.
Emit(ls, throwers) ==
  [heard |-> Invoked(ls, throwers, Len(ls)), threw |-> FALSE]

\* The card list's listener (HskCategoryList.tsx, lines 409-419): a cached
\* event sets the entry of its card, any other event deletes it.
StatusMapAfter(map, detail) ==
  IF detail.cached
    THEN [k \in DOMAIN map \cup {detail.cardId} |->
            IF k = detail.cardId THEN [audioStored |-> detail.audioStored] ELSE map[k]]
    ELSE [k \in DOMAIN map \ {detail.cardId} |-> map[k]]

\* The view after emit(detail) over the listeners ls: the card list's listener
\* runs when it is in the set.
DeliveredTo(ls, map, detail) ==
  IF UiListener \in Range(ls) THEN StatusMapAfter(map, detail) ELSE map

\* openDB rejects (the database is blocked, storage is unavailable): dbPromise
\* keeps the rejected promise, no code of the file assigns it again.
OpenDbFailed ==
  /\ MacroReady
  /\ dbPromise = "pending"
  /\ dbPromise' = "rejected"
  /\ UNCHANGED <<isBrowser, swCaches, fetchEvents, listeners, unsubscribed,
                 opens, cards, audio, audioObjectUrls, blobUrlStore, now, txq,
                 offlineStatusMap, tasks>>

\* `await getDb()` on the rejected promise throws inside the call: none of the
\* exported functions catches it, the call rejects with the open's failure.
AwaitDbRejected(t) ==
  /\ tasks[t].pc = "db"
  /\ dbPromise = "rejected"
  /\ tasks' = [tasks EXCEPT ![t].pc = "failed",
                            ![t].steps = Append(@, "openRejected"),
                            ![t].result = {"OpenError"}]
  /\ UNCHANGED <<isBrowser, swCaches, fetchEvents, offlineStatusMap,
                 listeners, unsubscribed, dbPromise, opens, cards, audio,
                 audioObjectUrls, blobUrlStore, now, txq>>

(***************************************************************************)
(* cacheCardOffline (lines 110-163).                                        *)
(***************************************************************************)
CacheCall(t, card) ==
  /\ MacroReady
  /\ FreeSlot(t)
  /\ now + Cardinality({u \in Slots : tasks[u].op = "cache" /\ tasks[u].pc = "db"})
       <= MaxNow
  /\ LET rec == [IdleTask EXCEPT !.op = "cache", !.cardId = card.id, !.card = card] IN
       IF ~ isBrowser
         THEN /\ tasks' = Started(t, "cache", card.id,
                    [rec EXCEPT !.pc = "failed", !.result = {"NotBrowser"}])
              /\ UNCHANGED <<dbPromise, opens>>
         ELSE /\ tasks' = Started(t, "cache", card.id, [rec EXCEPT !.pc = "db"])
              /\ dbPromise' = GetDb /\ opens' = OpensAfterGetDb
  /\ UNCHANGED <<isBrowser, swCaches, fetchEvents, offlineStatusMap,
                 listeners, unsubscribed, cards, audio, audioObjectUrls,
                 blobUrlStore, txq, now>>

\* After await getDb(): read the clock, then start the fetch or the delete.
CacheAfterDb(t) ==
  /\ tasks[t].op = "cache" /\ tasks[t].pc = "db"
  /\ dbPromise = "open"
  /\ now' = now + 1
  /\ IF tasks[t].card.audio_url # NullUrl
       THEN /\ tasks' = [tasks EXCEPT ![t].cachedAt = now, ![t].pc = "fetch"]
            /\ UNCHANGED txq
       ELSE /\ tasks' = [tasks EXCEPT ![t].cachedAt = now, ![t].pc = "deleteAudio"]
            /\ txq' = Enqueue(txq, "audio", t, "w")
  /\ UNCHANGED <<isBrowser, swCaches, fetchEvents, offlineStatusMap,
                 listeners, unsubscribed, dbPromise, opens, cards, audio,
                 audioObjectUrls, blobUrlStore>>

\* Mutant of CacheFetchDone: no catch block, a failed fetch rejects the call.
CacheFetchDoneRethrows(t, outcome) ==
  /\ MacroReady
  /\ tasks[t].op = "cache" /\ tasks[t].pc = "fetch"
  /\ IF outcome = "ok"
       THEN tasks' = [tasks EXCEPT ![t].pc = "blob"]
       ELSE tasks' = [tasks EXCEPT ![t].pc = "failed",
                                   ![t].steps = Append(@, "fetchFailed"),
                                   ![t].result = {"FetchFailed"}]
  /\ UNCHANGED <<isBrowser, swCaches, fetchEvents, offlineStatusMap,
                 listeners, unsubscribed, dbPromise, opens, cards, audio,
                 audioObjectUrls, blobUrlStore, txq, now>>

\* The fetch settles.  A rejection or a non-ok status lands in the catch block,
\* which only logs; then the card record is put.
CacheFetchDone(t, outcome) ==
  /\ MacroReady
  /\ tasks[t].op = "cache" /\ tasks[t].pc = "fetch"
  /\ IF outcome = "ok"
       THEN /\ tasks' = [tasks EXCEPT ![t].pc = "blob"]
            /\ UNCHANGED txq
       ELSE /\ tasks' = [tasks EXCEPT ![t].pc = "putCard",
                                      ![t].steps = Append(@, "fetchFailed")]
            /\ txq' = Enqueue(txq, "cards", t, "w")
  /\ UNCHANGED <<isBrowser, swCaches, fetchEvents, offlineStatusMap,
                 listeners, unsubscribed, dbPromise, opens, cards, audio,
                 audioObjectUrls, blobUrlStore, now>>

\* response.blob() settles: the body arrives, or reading it fails (caught).
CacheBlobDone(t, ok) ==
  /\ MacroReady
  /\ tasks[t].op = "cache" /\ tasks[t].pc = "blob"
  /\ IF ok
       THEN /\ tasks' = [tasks EXCEPT ![t].pc = "putAudio"]
            /\ txq' = Enqueue(txq, "audio", t, "w")
       ELSE /\ tasks' = [tasks EXCEPT ![t].pc = "putCard",
                                      ![t].steps = Append(@, "fetchFailed")]
            /\ txq' = Enqueue(txq, "cards", t, "w")
  /\ UNCHANGED <<isBrowser, swCaches, fetchEvents, offlineStatusMap,
                 listeners, unsubscribed, dbPromise, opens, cards, audio,
                 audioObjectUrls, blobUrlStore, now>>

\* Mutant of CachePutAudioDone: the event is emitted once the audio is stored,
\* before the card record is written.
CachePutAudioDoneEmitsFirst(t) ==
  /\ MacroReady
  /\ tasks[t].op = "cache" /\ tasks[t].pc = "putAudio"
  /\ CanRun("audio", t)
  /\ audio' = Put(audio, tasks[t].card.id,
                  [cardId |-> tasks[t].card.id,
                   blob |-> [of |-> tasks[t].card.id, at |-> tasks[t].cachedAt],
                   cachedAt |-> tasks[t].cachedAt])
  /\ tasks' = [tasks EXCEPT ![t].audioStored = TRUE, ![t].pc = "putCard",
                            ![t].steps = @ \o <<"putAudio", "emit">>,
                            ![t].emitted = Append(@, Detail(tasks[t].card.id, TRUE, TRUE))]
  /\ txq' = Enqueue(Dequeue(txq, "audio", t), "cards", t, "w")
  /\ UNCHANGED <<isBrowser, swCaches, fetchEvents, offlineStatusMap,
                 listeners, unsubscribed, dbPromise, opens, cards,
                 audioObjectUrls, blobUrlStore, now>>

\* db.put('audio', ...) completes; audioStored = true; the card put starts.
CachePutAudioDone(t) ==
  /\ MacroReady
  /\ tasks[t].op = "cache" /\ tasks[t].pc = "putAudio"
  /\ CanRun("audio", t)
  /\ audio' = Put(audio, tasks[t].card.id,
                  [cardId |-> tasks[t].card.id,
                   blob |-> [of |-> tasks[t].card.id, at |-> tasks[t].cachedAt],
                   cachedAt |-> tasks[t].cachedAt])
  /\ tasks' = [tasks EXCEPT ![t].audioStored = TRUE, ![t].pc = "putCard",
                            ![t].steps = Append(@, "putAudio")]
  /\ txq' = Enqueue(Dequeue(txq, "audio", t), "cards", t, "w")
  /\ UNCHANGED <<isBrowser, swCaches, fetchEvents, offlineStatusMap,
                 listeners, unsubscribed, dbPromise, opens, cards,
                 audioObjectUrls, blobUrlStore, now>>

\* Mutant of CacheDeleteAudioDone: the else branch deletes nothing.
CacheDeleteAudioDoneSkips(t) ==
  /\ MacroReady
  /\ tasks[t].op = "cache" /\ tasks[t].pc = "deleteAudio"
  /\ CanRun("audio", t)
  /\ tasks' = [tasks EXCEPT ![t].pc = "putCard",
                            ![t].steps = Append(@, "deleteAudio")]
  /\ txq' = Enqueue(Dequeue(txq, "audio", t), "cards", t, "w")
  /\ UNCHANGED <<isBrowser, swCaches, fetchEvents, offlineStatusMap,
                 listeners, unsubscribed, dbPromise, opens, cards, audio,
                 audioObjectUrls, blobUrlStore, now>>

\* db.delete('audio', card.id) completes (the card has no audio URL).
CacheDeleteAudioDone(t) ==
  /\ MacroReady
  /\ tasks[t].op = "cache" /\ tasks[t].pc = "deleteAudio"
  /\ CanRun("audio", t)
  /\ audio' = Delete(audio, tasks[t].card.id)
  /\ tasks' = [tasks EXCEPT ![t].pc = "putCard",
                            ![t].steps = Append(@, "deleteAudio")]
  /\ txq' = Enqueue(Dequeue(txq, "audio", t), "cards", t, "w")
  /\ UNCHANGED <<isBrowser, swCaches, fetchEvents, offlineStatusMap,
                 listeners, unsubscribed, dbPromise, opens, cards,
                 audioObjectUrls, blobUrlStore, now>>

\* Mutant of CacheResultOf: the result says audio is stored whenever the card
\* has an audio URL.
CacheResultAssumesAudio(t) ==
  Detail(tasks[t].card.id, TRUE, tasks[t].card.audio_url # NullUrl)

\* const result = {cardId: card.id, cached: true, audioStored} (lines 155-159)
CacheResultOf(t) == Detail(tasks[t].card.id, TRUE, tasks[t].audioStored)

\* Mutant of MembershipOf: the record is written without the membership set.
MembershipDropped(t) == {}

\* The membership set written with the card record: the one the call was
\* given (the specification, section 4.2), none in a call without one.
MembershipOf(t) == tasks[t].collectionIds

\* The value put in the cards store (lines 146-150).
\* Mutant of CardRecordOf: a per-identity version check, the stored record is
\* kept when it carries a later timestamp than the call's.
CardRecordUnlessNewer(t) ==
  LET id == tasks[t].card.id IN
    IF id \in DOMAIN cards /\ cards[id].cachedAt > tasks[t].cachedAt
      THEN cards[id]
      ELSE [card |-> tasks[t].card, cachedAt |-> tasks[t].cachedAt,
            audioStored |-> tasks[t].audioStored, collectionIds |-> MembershipOf(t)]

CardRecordOf(t) ==
  [card |-> tasks[t].card, cachedAt |-> tasks[t].cachedAt,
   audioStored |-> tasks[t].audioStored,
   collectionIds |-> MembershipOf(t)]

\* db.put('cards', ...) completes; then revokeAudioObjectUrl, emit, return.
CachePutCardDone(t) ==
  /\ MacroReady
  /\ tasks[t].op = "cache" /\ tasks[t].pc = "putCard"
  /\ CanRun("cards", t)
  /\ \E throwers \in SUBSET (Range(listeners) \ {UiListener}) :
       LET card == tasks[t].card
           result == CacheResultOf(t)
           e == Emit(listeners, throwers)
       IN
         /\ cards' = Put(cards, card.id, CardRecordOf(t))
         /\ audioObjectUrls' = RevokedMap(audioObjectUrls, card.id)
         /\ blobUrlStore' = RevokedStore(audioObjectUrls, blobUrlStore, card.id)
         /\ tasks' = [tasks EXCEPT
              ![t].pc = IF e.threw THEN "failed" ELSE "done",
              ![t].steps = @ \o <<"putCard", "revoke", "emit">>,
              ![t].revoked = ExistingUrl(audioObjectUrls, card.id),
              ![t].emitted = Append(@, result),
              ![t].heard = e.heard,
              ![t].result = IF e.threw THEN {"ListenerThrew"} ELSE {result}]
         /\ offlineStatusMap' = DeliveredTo(listeners, offlineStatusMap, result)
  /\ txq' = Dequeue(txq, "cards", t)
  /\ UNCHANGED <<isBrowser, swCaches, fetchEvents, listeners, unsubscribed,
                 dbPromise, opens, audio, now>>

(***************************************************************************)
(* A database request of cacheCardOffline fails (the quota is exceeded, the *)
(* transaction aborts): the store is left as it was and the awaited promise *)
(* rejects.                                                                 *)
(***************************************************************************)
\* db.put('audio', ...) rejects inside the try block (lines 120-137): the catch
\* block logs, audioStored stays false, the card put starts.
CachePutAudioFailed(t) ==
  /\ MacroReady
  /\ tasks[t].op = "cache" /\ tasks[t].pc = "putAudio"
  /\ CanRun("audio", t)
  /\ tasks' = [tasks EXCEPT ![t].pc = "putCard",
                            ![t].steps = Append(@, "putAudioFailed")]
  /\ txq' = Enqueue(Dequeue(txq, "audio", t), "cards", t, "w")
  /\ UNCHANGED <<isBrowser, swCaches, fetchEvents, offlineStatusMap,
                 listeners, unsubscribed, dbPromise, opens, cards, audio,
                 audioObjectUrls, blobUrlStore, now>>

\* db.delete('audio', card.id) rejects (line 141): nothing catches it.
CacheDeleteAudioFailed(t) ==
  /\ MacroReady
  /\ tasks[t].op = "cache" /\ tasks[t].pc = "deleteAudio"
  /\ CanRun("audio", t)
  /\ tasks' = [tasks EXCEPT ![t].pc = "failed",
                            ![t].steps = Append(@, "deleteAudioFailed"),
                            ![t].result = {"DbError"}]
  /\ txq' = Dequeue(txq, "audio", t)
  /\ UNCHANGED <<isBrowser, swCaches, fetchEvents, offlineStatusMap,
                 listeners, unsubscribed, dbPromise, opens, cards, audio,
                 audioObjectUrls, blobUrlStore, now>>

\* Mutant of CachePutCardFailed: the failure is swallowed and the call goes on
\* to revoke, emit and return.
CachePutCardFailedSwallowed(t) ==
  /\ MacroReady
  /\ tasks[t].op = "cache" /\ tasks[t].pc = "putCard"
  /\ CanRun("cards", t)
  /\ audioObjectUrls' = RevokedMap(audioObjectUrls, tasks[t].card.id)
  /\ blobUrlStore' = RevokedStore(audioObjectUrls, blobUrlStore, tasks[t].card.id)
  /\ tasks' = [tasks EXCEPT ![t].pc = "done",
                            ![t].steps = @ \o <<"putCardFailed", "revoke", "emit">>,
                            ![t].emitted = Append(@, CacheResultOf(t)),
                            ![t].result = {CacheResultOf(t)}]
  /\ txq' = Dequeue(txq, "cards", t)
  /\ UNCHANGED <<isBrowser, swCaches, fetchEvents, offlineStatusMap,
                 listeners, unsubscribed, dbPromise, opens, cards, audio,
                 now>>

\* db.put('cards', ...) rejects (lines 144-152): nothing catches it, the lines
\* after it do not run.
CachePutCardFailed(t) ==
  /\ MacroReady
  /\ tasks[t].op = "cache" /\ tasks[t].pc = "putCard"
  /\ CanRun("cards", t)
  /\ tasks' = [tasks EXCEPT ![t].pc = "failed",
                            ![t].steps = Append(@, "putCardFailed"),
                            ![t].result = {"DbError"}]
  /\ txq' = Dequeue(txq, "cards", t)
  /\ UNCHANGED <<isBrowser, swCaches, fetchEvents, offlineStatusMap,
                 listeners, unsubscribed, dbPromise, opens, cards, audio,
                 audioObjectUrls, blobUrlStore, now>>

(***************************************************************************)
(* removeCardFromOffline (lines 165-173).                                   *)
(***************************************************************************)
\* Mutant of RemoveCall: no isBrowser check, so outside the browser getDb throws.
RemoveCallUnguarded(t, cardId) ==
  /\ MacroReady
  /\ FreeSlot(t)
  /\ LET rec == [IdleTask EXCEPT !.op = "remove", !.cardId = cardId] IN
       IF ~ isBrowser
         THEN /\ tasks' = Started(t, "remove", cardId,
                    [rec EXCEPT !.pc = "failed", !.result = {"NotBrowser"}])
              /\ UNCHANGED <<dbPromise, opens>>
         ELSE /\ tasks' = Started(t, "remove", cardId, [rec EXCEPT !.pc = "db"])
              /\ dbPromise' = GetDb /\ opens' = OpensAfterGetDb
  /\ UNCHANGED <<isBrowser, swCaches, fetchEvents, offlineStatusMap,
                 listeners, unsubscribed, cards, audio, audioObjectUrls,
                 blobUrlStore, txq, now>>

RemoveCall(t, cardId) ==
  /\ MacroReady
  /\ FreeSlot(t)
  /\ LET rec == [IdleTask EXCEPT !.op = "remove", !.cardId = cardId] IN
       IF ~ isBrowser
         THEN /\ tasks' = Started(t, "remove", cardId, [rec EXCEPT !.pc = "done"])
              /\ UNCHANGED <<dbPromise, opens>>
         ELSE /\ tasks' = Started(t, "remove", cardId, [rec EXCEPT !.pc = "db"])
              /\ dbPromise' = GetDb /\ opens' = OpensAfterGetDb
  /\ UNCHANGED <<isBrowser, swCaches, fetchEvents, offlineStatusMap,
                 listeners, unsubscribed, cards, audio, audioObjectUrls,
                 blobUrlStore, txq, now>>

\* Promise.all([db.delete('cards', id), db.delete('audio', id)]) starts.
RemoveAfterDb(t) ==
  /\ tasks[t].op = "remove" /\ tasks[t].pc = "db"
  /\ dbPromise = "open"
  /\ tasks' = [tasks EXCEPT ![t].pc = "deleteBoth", ![t].pending = Stores]
  /\ txq' = Enqueue(Enqueue(txq, "cards", t, "w"), "audio", t, "w")
  /\ UNCHANGED <<isBrowser, swCaches, fetchEvents, offlineStatusMap,
                 listeners, unsubscribed, dbPromise, opens, cards, audio,
                 audioObjectUrls, blobUrlStore, now>>

\* Mutant of RemoveDeleteDone: a removal that found nothing to delete returns
\* without emitting.
RemoveDeleteDoneQuietWhenAbsent(t, s) ==
  /\ MacroReady
  /\ tasks[t].op = "remove" /\ tasks[t].pc = "deleteBoth"
  /\ s \in tasks[t].pending
  /\ CanRun(s, t)
  /\ LET cardId == tasks[t].cardId
         last == tasks[t].pending = {s}
         absent == ~ tasks[t].hadCard /\ ~ tasks[t].hadAudio
     IN
       /\ cards' = IF s = "cards" THEN Delete(cards, cardId) ELSE cards
       /\ audio' = IF s = "audio" THEN Delete(audio, cardId) ELSE audio
       /\ IF last
            THEN /\ audioObjectUrls' = RevokedMap(audioObjectUrls, cardId)
                 /\ blobUrlStore' = RevokedStore(audioObjectUrls, blobUrlStore, cardId)
                 /\ \E throwers \in SUBSET (Range(listeners) \ {UiListener}) :
                      LET e == IF absent THEN Emit(<<>>, {}) ELSE Emit(listeners, throwers) IN
                        tasks' = [tasks EXCEPT
                          ![t].pc = IF e.threw THEN "failed" ELSE "done",
                          ![t].pending = {},
                          ![t].steps = @ \o <<"revoke", "emit">>,
                          ![t].revoked = ExistingUrl(audioObjectUrls, cardId),
                          ![t].emitted = IF absent THEN @
                                         ELSE Append(@, Detail(cardId, FALSE, FALSE)),
                          ![t].heard = e.heard,
                          ![t].result = IF e.threw THEN {"ListenerThrew"} ELSE {}]
            ELSE /\ UNCHANGED <<audioObjectUrls, blobUrlStore>>
                 /\ tasks' = [tasks EXCEPT ![t].pending = @ \ {s}]
  /\ txq' = Dequeue(txq, s, t)
  /\ UNCHANGED <<isBrowser, swCaches, fetchEvents, offlineStatusMap,
                 listeners, unsubscribed, dbPromise, opens, now>>

\* One of the two deletes completes; after the second: revoke, emit.
RemoveDeleteDone(t, s) ==
  /\ MacroReady
  /\ tasks[t].op = "remove" /\ tasks[t].pc = "deleteBoth"
  /\ s \in tasks[t].pending
  /\ CanRun(s, t)
  /\ LET cardId == tasks[t].cardId
         last == tasks[t].pending = {s}
     IN
       /\ cards' = IF s = "cards" THEN Delete(cards, cardId) ELSE cards
       /\ audio' = IF s = "audio" THEN Delete(audio, cardId) ELSE audio
       /\ IF last
            THEN /\ audioObjectUrls' = RevokedMap(audioObjectUrls, cardId)
                 /\ blobUrlStore' = RevokedStore(audioObjectUrls, blobUrlStore, cardId)
                 /\ \E throwers \in SUBSET (Range(listeners) \ {UiListener}) :
                      LET e == Emit(listeners, throwers) IN
                        tasks' = [tasks EXCEPT
                          ![t].pc = IF e.threw THEN "failed" ELSE "done",
                          ![t].pending = {},
                          ![t].steps = @ \o <<"revoke", "emit">>,
                          ![t].revoked = ExistingUrl(audioObjectUrls, cardId),
                          ![t].emitted = Append(@, Detail(cardId, FALSE, FALSE)),
                          ![t].heard = e.heard,
                          ![t].result = IF e.threw THEN {"ListenerThrew"} ELSE {}]
                 /\ offlineStatusMap' =
                      DeliveredTo(listeners, offlineStatusMap, Detail(cardId, FALSE, FALSE))
            ELSE /\ UNCHANGED <<audioObjectUrls, blobUrlStore,
                                offlineStatusMap>>
                 /\ tasks' = [tasks EXCEPT ![t].pending = @ \ {s}]
  /\ txq' = Dequeue(txq, s, t)
  /\ UNCHANGED <<isBrowser, swCaches, fetchEvents, listeners, unsubscribed,
                 dbPromise, opens, now>>

\* handleDeleteCard (HskCategoryList.tsx, line 914): `void
\* removeCardFromOffline(card.id)`; the promise is dropped, nothing awaits it
\* and no handler is attached to it.
HandleDeleteCard(t, cardId) ==
  /\ MacroReady
  /\ FreeSlot(t)
  /\ isBrowser
  /\ LET caching(u) == u # t /\ InFlight(u) /\ tasks[u].op = "cache"
                          /\ tasks[u].cardId = cardId
         started == Started(t, "remove", cardId,
                      [IdleTask EXCEPT !.op = "remove", !.cardId = cardId, !.pc = "db",
                                       !.handled = FALSE])
     IN tasks' = [u \in Slots |->
                    IF caching(u) \/ (u = t /\ \E w \in Slots : caching(w))
                      THEN [started[u] EXCEPT !.raced = TRUE]
                      ELSE started[u]]
  /\ dbPromise' = GetDb /\ opens' = OpensAfterGetDb
  /\ UNCHANGED <<isBrowser, swCaches, fetchEvents, offlineStatusMap,
                 listeners, unsubscribed, cards, audio, audioObjectUrls,
                 blobUrlStore, txq, now>>

\* One of the two deletes rejects: Promise.all rejects, nothing in
\* removeCardFromOffline catches it, the lines after the await (revoke, emit)
\* do not run.  The other delete, when still pending, stays queued; the call
\* is collected once that request has completed too.
RemoveDeleteFailed(t, s) ==
  /\ MacroReady
  /\ tasks[t].op = "remove" /\ tasks[t].pc = "deleteBoth"
  /\ s \in tasks[t].pending
  /\ CanRun(s, t)
  /\ tasks' = [tasks EXCEPT
        ![t].pc = IF tasks[t].pending = {s} THEN "failed" ELSE "deleteRest",
        ![t].pending = @ \ {s},
        ![t].steps = Append(@, "deleteFailed"),
        ![t].result = {"DbError"}]
  /\ txq' = Dequeue(txq, s, t)
  /\ UNCHANGED <<isBrowser, swCaches, fetchEvents, offlineStatusMap,
                 listeners, unsubscribed, dbPromise, opens, cards, audio,
                 audioObjectUrls, blobUrlStore, now>>

\* The delete left over by a rejected Promise.all completes (ok) or fails.
RemoveRestDone(t, s, ok) ==
  /\ MacroReady
  /\ tasks[t].op = "remove" /\ tasks[t].pc = "deleteRest"
  /\ s \in tasks[t].pending
  /\ CanRun(s, t)
  /\ cards' = IF ok /\ s = "cards" THEN Delete(cards, tasks[t].cardId) ELSE cards
  /\ audio' = IF ok /\ s = "audio" THEN Delete(audio, tasks[t].cardId) ELSE audio
  /\ tasks' = [tasks EXCEPT ![t].pc = "failed", ![t].pending = {}]
  /\ txq' = Dequeue(txq, s, t)
  /\ UNCHANGED <<isBrowser, swCaches, fetchEvents, offlineStatusMap,
                 listeners, unsubscribed, dbPromise, opens, audioObjectUrls,
                 blobUrlStore, now>>

(***************************************************************************)
(* emit when the callbacks change the listener set while it runs.  A        *)
(* callback can call subscribeOfflineStatus or an unsubscribe function      *)
(* (lines 82-87).  listeners.forEach (line 65) walks the live Set in        *)
(* insertion order: an entry deleted before it is reached is not visited,   *)
(* an entry added during the walk is appended and visited.  The walk keeps  *)
(* the number pos of entries behind it; deleting one of those moves it back *)
(* by one.  With one subscribe or unsubscribe per callback and three        *)
(* callbacks no entry can be deleted and added again for ever, so the walk  *)
(* ends.                                                                    *)
(***************************************************************************)
EmitListeners == Listeners \cup {"l3"}
Behaviours ==
  {[kind |-> "nothing", l |-> "-"]}
    \cup [kind : {"subscribe", "unsubscribe"}, l : EmitListeners]

IndexIn(ls, x) == CHOOSE i \in 1..Len(ls) : ls[i] = x

\* The Set after a callback did d.
SetAfter(ls, d) ==
  CASE d.kind = "unsubscribe" -> SelectSeq(ls, LAMBDA x : x # d.l)
    [] d.kind = "subscribe" -> IF d.l \in Range(ls) THEN ls ELSE Append(ls, d.l)
    [] OTHER -> ls

RECURSIVE SetAfterAll(_, _)
SetAfterAll(ls, ds) ==
  IF ds = <<>> THEN ls ELSE SetAfterAll(SetAfter(ls, Head(ds).did), Tail(ds))

\* Mutant of ForEach: the walk goes over a copy of the Set taken when emit
\* starts, as [...listeners].forEach would.
ForEachOfCopy(ls, pos, heard, does) ==
  LET all == [i \in 1..Len(ls) |->
                [listener |-> ls[i], threw |-> FALSE, did |-> does[ls[i]]]]
  IN [listeners |-> SetAfterAll(ls, all), heard |-> all]

\* listeners.forEach from position pos on: the callback of the next entry
\* runs and does does[l]; the result is the Set left and the callbacks run.
RECURSIVE ForEach(_, _, _, _)
ForEach(ls, pos, heard, does) ==
  IF pos >= Len(ls)
    THEN [listeners |-> ls, heard |-> heard]
    ELSE LET l == ls[pos + 1]
             d == does[l]
             behind == /\ d.kind = "unsubscribe"
                       /\ d.l \in Range(ls)
                       /\ IndexIn(ls, d.l) <= pos + 1
         IN ForEach(SetAfter(ls, d), IF behind THEN pos ELSE pos + 1,
                    Append(heard, [listener |-> l, threw |-> FALSE, did |-> d]), does)

\* RemoveDeleteDone with callbacks that subscribe and unsubscribe.
RemoveDeleteDoneReentrant(t, s) ==
  /\ MacroReady
  /\ tasks[t].op = "remove" /\ tasks[t].pc = "deleteBoth"
  /\ s \in tasks[t].pending
  /\ CanRun(s, t)
  /\ LET cardId == tasks[t].cardId
         last == tasks[t].pending = {s}
     IN
       /\ cards' = IF s = "cards" THEN Delete(cards, cardId) ELSE cards
       /\ audio' = IF s = "audio" THEN Delete(audio, cardId) ELSE audio
       /\ IF last
            THEN /\ audioObjectUrls' = RevokedMap(audioObjectUrls, cardId)
                 /\ blobUrlStore' = RevokedStore(audioObjectUrls, blobUrlStore, cardId)
                 /\ \E does \in [EmitListeners -> Behaviours] :
                      LET e == ForEach(listeners, 0, <<>>, does)
                          off == {e.heard[i].did.l : i \in
                                    {i \in DOMAIN e.heard :
                                       e.heard[i].did.kind = "unsubscribe"}}
                      IN
                        /\ listeners' = e.listeners
                        /\ unsubscribed' = (unsubscribed \cup off) \ Range(e.listeners)
                        /\ tasks' = [tasks EXCEPT
                             ![t].pc = "done",
                             ![t].pending = {},
                             ![t].steps = @ \o <<"revoke", "emit">>,
                             ![t].revoked = ExistingUrl(audioObjectUrls, cardId),
                             ![t].emitted = Append(@, Detail(cardId, FALSE, FALSE)),
                             ![t].heard = e.heard]
            ELSE /\ UNCHANGED <<audioObjectUrls, blobUrlStore, listeners,
                                unsubscribed>>
                 /\ tasks' = [tasks EXCEPT ![t].pending = @ \ {s}]
  /\ txq' = Dequeue(txq, s, t)
  /\ UNCHANGED <<isBrowser, swCaches, fetchEvents, offlineStatusMap,
                 dbPromise, opens, now>>

(***************************************************************************)
(* URL.createObjectURL returns a URL no one holds.  The numbers of revoked  *)
(* URLs that no map entry and no call result mentions are used again, so    *)
(* MaxUrls bounds the URLs in use at one time, not the calls.               *)
(***************************************************************************)
UsedUrls ==
  {h.url : h \in blobUrlStore}
    \cup {audioObjectUrls[k] : k \in DOMAIN audioObjectUrls}
    \cup UNION {tasks[t].result : t \in {u \in Slots : tasks[u].op = "play"}}
FreshUrlNumbers == {n \in 1..MaxUrls : ObjectUrl(n) \notin UsedUrls}
CreateObjectUrl ==
  ObjectUrl(CHOOSE n \in FreshUrlNumbers : \A m \in FreshUrlNumbers : n <= m)

(***************************************************************************)
(* getPlayableAudioUrl (lines 193-211).                                     *)
(***************************************************************************)
\* What the call returns in the browser, given the map and the audio store it
\* reads and the URL createObjectURL would make: the map's entry, else a new
\* URL for the stored blob, else the fallback (fallbackRemoteUrl ?? null).
PlayableUrlOf(map, audioStore, cardId, fallback, objectUrl) ==
  IF cardId \in DOMAIN map THEN map[cardId]
  ELSE IF cardId \in DOMAIN audioStore THEN objectUrl
  ELSE fallback

PlayCall(t, cardId, fallback) ==
  /\ MacroReady
  /\ FreeSlot(t)
  /\ LET rec == [IdleTask EXCEPT !.op = "play", !.cardId = cardId,
                                 !.fallback = fallback] IN
       IF ~ isBrowser
         THEN /\ tasks' = Started(t, "play", cardId,
                    [rec EXCEPT !.pc = "done", !.result = {fallback}])
              /\ UNCHANGED <<dbPromise, opens>>
         ELSE IF cardId \in DOMAIN audioObjectUrls
           THEN /\ tasks' = Started(t, "play", cardId,
                      [rec EXCEPT !.pc = "done", !.steps = <<"fromMap">>,
                                  !.result = {audioObjectUrls[cardId]}])
                /\ UNCHANGED <<dbPromise, opens>>
           ELSE /\ tasks' = Started(t, "play", cardId, [rec EXCEPT !.pc = "db"])
                /\ dbPromise' = GetDb /\ opens' = OpensAfterGetDb
  /\ UNCHANGED <<isBrowser, swCaches, fetchEvents, offlineStatusMap,
                 listeners, unsubscribed, cards, audio, audioObjectUrls,
                 blobUrlStore, txq, now>>

PlayAfterDb(t) ==
  /\ tasks[t].op = "play" /\ tasks[t].pc = "db"
  /\ dbPromise = "open"
  /\ tasks' = [tasks EXCEPT ![t].pc = "getAudio"]
  /\ txq' = Enqueue(txq, "audio", t, "r")
  /\ UNCHANGED <<isBrowser, swCaches, fetchEvents, offlineStatusMap,
                 listeners, unsubscribed, dbPromise, opens, cards, audio,
                 audioObjectUrls, blobUrlStore, now>>

\* Mutant of PlayGetDone: the new URL is returned but not put in the map.
PlayGetDoneForgets(t) ==
  /\ MacroReady
  /\ tasks[t].op = "play" /\ tasks[t].pc = "getAudio"
  /\ CanRun("audio", t)
  /\ LET cardId == tasks[t].cardId IN
       IF cardId \in DOMAIN audio
         THEN /\ FreshUrlNumbers # {}
              /\ LET objectUrl == CreateObjectUrl IN
                   /\ blobUrlStore' = blobUrlStore \cup
                        {[url |-> objectUrl, cardId |-> cardId,
                          blob |-> audio[cardId].blob]}
                   /\ UNCHANGED audioObjectUrls
                   /\ tasks' = [tasks EXCEPT ![t].pc = "done",
                                             ![t].steps = <<"get", "create">>,
                                             ![t].result = {objectUrl}]
         ELSE /\ tasks' = [tasks EXCEPT ![t].pc = "done",
                                        ![t].steps = <<"get", "fallback">>,
                                        ![t].result = {tasks[t].fallback}]
              /\ UNCHANGED <<blobUrlStore, audioObjectUrls>>
  /\ txq' = Dequeue(txq, "audio", t)
  /\ UNCHANGED <<isBrowser, swCaches, fetchEvents, offlineStatusMap,
                 listeners, unsubscribed, dbPromise, opens, cards, audio,
                 now>>

\* db.get('audio', cardId) completes.  With a record: createObjectURL, then
\* audioObjectUrls.set, which replaces whatever the map holds.
PlayGetDone(t) ==
  /\ MacroReady
  /\ tasks[t].op = "play" /\ tasks[t].pc = "getAudio"
  /\ CanRun("audio", t)
  /\ LET cardId == tasks[t].cardId IN
       IF cardId \in DOMAIN audio
         THEN /\ FreshUrlNumbers # {}
              /\ LET objectUrl == CreateObjectUrl IN
                   /\ blobUrlStore' = blobUrlStore \cup
                        {[url |-> objectUrl, cardId |-> cardId,
                          blob |-> audio[cardId].blob]}
                   /\ audioObjectUrls' = Put(audioObjectUrls, cardId, objectUrl)
                   /\ tasks' = [tasks EXCEPT ![t].pc = "done",
                                             ![t].steps = <<"get", "create", "set">>,
                                             ![t].result = {objectUrl}]
         ELSE /\ tasks' = [tasks EXCEPT ![t].pc = "done",
                                        ![t].steps = <<"get", "fallback">>,
                                        ![t].result = {tasks[t].fallback}]
              /\ UNCHANGED <<blobUrlStore, audioObjectUrls>>
  /\ txq' = Dequeue(txq, "audio", t)
  /\ UNCHANGED <<isBrowser, swCaches, fetchEvents, offlineStatusMap,
                 listeners, unsubscribed, dbPromise, opens, cards, audio,
                 now>>

(***************************************************************************)
(* clearOfflineCache (lines 213-220).                                       *)
(***************************************************************************)
ClearCall(t) ==
  /\ MacroReady
  /\ FreeSlot(t)
  /\ LET rec == [IdleTask EXCEPT !.op = "clear"] IN
       IF ~ isBrowser
         THEN /\ tasks' = Started(t, "clear", "-", [rec EXCEPT !.pc = "done"])
              /\ UNCHANGED <<dbPromise, opens>>
         ELSE /\ tasks' = Started(t, "clear", "-", [rec EXCEPT !.pc = "db"])
              /\ dbPromise' = GetDb /\ opens' = OpensAfterGetDb
  /\ UNCHANGED <<isBrowser, swCaches, fetchEvents, offlineStatusMap,
                 listeners, unsubscribed, cards, audio, audioObjectUrls,
                 blobUrlStore, txq, now>>

\* Promise.all([db.clear('cards'), db.clear('audio')]) starts.
ClearAfterDb(t) ==
  /\ tasks[t].op = "clear" /\ tasks[t].pc = "db"
  /\ dbPromise = "open"
  /\ tasks' = [tasks EXCEPT ![t].pc = "clearBoth", ![t].pending = Stores]
  /\ txq' = Enqueue(Enqueue(txq, "cards", t, "w"), "audio", t, "w")
  /\ UNCHANGED <<isBrowser, swCaches, fetchEvents, offlineStatusMap,
                 listeners, unsubscribed, dbPromise, opens, cards, audio,
                 audioObjectUrls, blobUrlStore, now>>

\* Mutant of ClearStoreDone: after the second clear an event with cached =
\* false is emitted for every identity, which empties the card list's view.
ClearStoreDoneEmits(t, s) ==
  /\ MacroReady
  /\ tasks[t].op = "clear" /\ tasks[t].pc = "clearBoth"
  /\ s \in tasks[t].pending
  /\ CanRun(s, t)
  /\ cards' = IF s = "cards" THEN <<>> ELSE cards
  /\ audio' = IF s = "audio" THEN <<>> ELSE audio
  /\ IF tasks[t].pending = {s}
       THEN /\ audioObjectUrls' = <<>>
            /\ blobUrlStore' =
                 {h \in blobUrlStore :
                    \A k \in DOMAIN audioObjectUrls : h.url # audioObjectUrls[k]}
            /\ tasks' = [tasks EXCEPT ![t].pc = "done", ![t].pending = {},
                                      ![t].steps = @ \o <<"revoke", "emit">>]
            /\ offlineStatusMap' =
                 IF UiListener \in Range(listeners) THEN <<>> ELSE offlineStatusMap
       ELSE /\ UNCHANGED <<audioObjectUrls, blobUrlStore, offlineStatusMap>>
            /\ tasks' = [tasks EXCEPT ![t].pending = @ \ {s}]
  /\ txq' = Dequeue(txq, s, t)
  /\ UNCHANGED <<isBrowser, swCaches, fetchEvents, listeners, unsubscribed,
                 dbPromise, opens, now>>

\* One of the two clears completes; after the second, every key of the map is
\* revoked.
ClearStoreDone(t, s) ==
  /\ MacroReady
  /\ tasks[t].op = "clear" /\ tasks[t].pc = "clearBoth"
  /\ s \in tasks[t].pending
  /\ CanRun(s, t)
  /\ cards' = IF s = "cards" THEN <<>> ELSE cards
  /\ audio' = IF s = "audio" THEN <<>> ELSE audio
  /\ IF tasks[t].pending = {s}
       THEN /\ audioObjectUrls' = <<>>
            /\ blobUrlStore' =
                 {h \in blobUrlStore :
                    \A k \in DOMAIN audioObjectUrls : h.url # audioObjectUrls[k]}
            /\ tasks' = [tasks EXCEPT ![t].pc = "done", ![t].pending = {},
                                      ![t].steps = @ \o <<"revoke">>]
       ELSE /\ UNCHANGED <<audioObjectUrls, blobUrlStore>>
            /\ tasks' = [tasks EXCEPT ![t].pending = @ \ {s}]
  /\ txq' = Dequeue(txq, s, t)
  /\ UNCHANGED <<isBrowser, swCaches, fetchEvents, offlineStatusMap,
                 listeners, unsubscribed, dbPromise, opens, now>>

(***************************************************************************)
(* The read-only calls: getOfflineStatusSnapshot (lines 89-99),             *)
(* isCardCached (101-108), getOfflineCard (175-182), getAllOfflineCards     *)
(* (184-191).  Each awaits getDb(), then one read of the cards store.       *)
(***************************************************************************)
Queries == {"status", "isCached", "getCard", "getAll"}
KeyedQueries == {"isCached", "getCard"}

\* entries.reduce(...): card id -> audioStored, over db.getAll('cards').
StatusSnapshotOf(store) ==
  LET item(id) == store[CHOOSE k \in DOMAIN store : store[k].card.id = id] IN
    [id \in {store[k].card.id : k \in DOMAIN store} |-> item(id).audioStored]
\* Boolean(record)
IsCardCachedOf(store, cardId) == cardId \in DOMAIN store
\* record?.card ?? null, null being the empty set
OfflineCardOf(store, cardId) ==
  IF cardId \in DOMAIN store THEN {store[cardId].card} ELSE {}
\* records.map((item) => item.card), as a set: the order is not specified
AllOfflineCardsOf(store) == {store[k].card : k \in DOMAIN store}

\* What each query returns outside the browser.
QueryNotBrowserResult(op) ==
  CASE op = "status" -> {<<>>}
    [] op = "isCached" -> {FALSE}
    [] op = "getCard" -> {}
    [] op = "getAll" -> {{}}

QueryResult(op, cardId) ==
  CASE op = "status" -> {StatusSnapshotOf(cards)}
    [] op = "isCached" -> {IsCardCachedOf(cards, cardId)}
    [] op = "getCard" -> OfflineCardOf(cards, cardId)
    [] op = "getAll" -> {AllOfflineCardsOf(cards)}

QueryCall(t, op, cardId) ==
  /\ MacroReady
  /\ FreeSlot(t)
  /\ (op \in KeyedQueries) = (cardId \in CardIds)
  /\ LET rec == [IdleTask EXCEPT !.op = op, !.cardId = cardId] IN
       IF ~ isBrowser
         THEN /\ tasks' = Started(t, op, cardId,
                    [rec EXCEPT !.pc = "done", !.result = QueryNotBrowserResult(op)])
              /\ UNCHANGED <<dbPromise, opens>>
         ELSE /\ tasks' = Started(t, op, cardId, [rec EXCEPT !.pc = "db"])
              /\ dbPromise' = GetDb /\ opens' = OpensAfterGetDb
  /\ UNCHANGED <<isBrowser, swCaches, fetchEvents, offlineStatusMap,
                 listeners, unsubscribed, cards, audio, audioObjectUrls,
                 blobUrlStore, txq, now>>

QueryAfterDb(t) ==
  /\ tasks[t].op \in Queries /\ tasks[t].pc = "db"
  /\ dbPromise = "open"
  /\ tasks' = [tasks EXCEPT ![t].pc = "getCards"]
  /\ txq' = Enqueue(txq, "cards", t, "r")
  /\ UNCHANGED <<isBrowser, swCaches, fetchEvents, offlineStatusMap,
                 listeners, unsubscribed, dbPromise, opens, cards, audio,
                 audioObjectUrls, blobUrlStore, now>>

QueryDone(t) ==
  /\ MacroReady
  /\ tasks[t].op \in Queries /\ tasks[t].pc = "getCards"
  /\ CanRun("cards", t)
  /\ tasks' = [tasks EXCEPT ![t].pc = "done",
                            ![t].result = QueryResult(tasks[t].op, tasks[t].cardId)]
  /\ txq' = Dequeue(txq, "cards", t)
  /\ UNCHANGED <<isBrowser, swCaches, fetchEvents, offlineStatusMap,
                 listeners, unsubscribed, dbPromise, opens, cards, audio,
                 audioObjectUrls, blobUrlStore, now>>

(***************************************************************************)
(* Collection membership of cached cards.  The caller passes                *)
(* {collectionIds} to cacheCardOffline and imports getOfflineCardCollections *)
(* and updateCachedCardCollections (HskCategoryList.tsx, lines 64-76, 243,   *)
(* 689, 737-738); offlineCache.ts as given has no such parameter and no     *)
(* such exports, so this part follows the specification (section 4.2): the  *)
(* membership set is a field of the card record, cacheCard overwrites it,   *)
(* updateCachedCardCollections replaces it in a record that exists and does *)
(* nothing otherwise, getOfflineCardCollections maps every cached identity  *)
(* to it.                                                                   *)
(***************************************************************************)
\* cacheCard(card, membership) in the browser: as CacheCall, the call keeping
\* the membership set for the card record it will write.
CacheCallWith(t, card, collectionIds) ==
  /\ MacroReady
  /\ FreeSlot(t)
  /\ isBrowser
  /\ now + Cardinality({u \in Slots : tasks[u].op = "cache" /\ tasks[u].pc = "db"})
       <= MaxNow
  /\ tasks' = Started(t, "cache", card.id,
                [IdleTask EXCEPT !.op = "cache", !.cardId = card.id, !.card = card,
                                 !.collectionIds = collectionIds, !.pc = "db"])
  /\ dbPromise' = GetDb /\ opens' = OpensAfterGetDb
  /\ UNCHANGED <<isBrowser, swCaches, fetchEvents, offlineStatusMap,
                 listeners, unsubscribed, cards, audio, audioObjectUrls,
                 blobUrlStore, txq, now>>

\* getOfflineCardCollections: card identity -> stored membership set.
OfflineCardCollectionsOf(store) ==
  [id \in DOMAIN store |-> store[id].collectionIds]

\* updateCachedCardCollections(cardId, collectionIds)
UpdateCall(t, cardId, collectionIds) ==
  /\ MacroReady
  /\ FreeSlot(t)
  /\ LET rec == [IdleTask EXCEPT !.op = "update", !.cardId = cardId,
                                 !.collectionIds = collectionIds] IN
       IF ~ isBrowser
         THEN /\ tasks' = Started(t, "update", cardId, [rec EXCEPT !.pc = "done"])
              /\ UNCHANGED <<dbPromise, opens>>
         ELSE /\ tasks' = Started(t, "update", cardId, [rec EXCEPT !.pc = "db"])
              /\ dbPromise' = GetDb /\ opens' = OpensAfterGetDb
  /\ UNCHANGED <<isBrowser, swCaches, fetchEvents, offlineStatusMap,
                 listeners, unsubscribed, cards, audio, audioObjectUrls,
                 blobUrlStore, txq, now>>

UpdateAfterDb(t) ==
  /\ tasks[t].op = "update" /\ tasks[t].pc = "db"
  /\ dbPromise = "open"
  /\ tasks' = [tasks EXCEPT ![t].pc = "putMembership"]
  /\ txq' = Enqueue(txq, "cards", t, "w")
  /\ UNCHANGED <<isBrowser, swCaches, fetchEvents, offlineStatusMap,
                 listeners, unsubscribed, dbPromise, opens, cards, audio,
                 audioObjectUrls, blobUrlStore, now>>

\* Mutant of UpdateDone: the record is created when the card is not cached.
UpdateDoneUpserts(t) ==
  /\ MacroReady
  /\ tasks[t].op = "update" /\ tasks[t].pc = "putMembership"
  /\ CanRun("cards", t)
  /\ LET cardId == tasks[t].cardId IN
       cards' = IF cardId \in DOMAIN cards
                  THEN [cards EXCEPT ![cardId].collectionIds = tasks[t].collectionIds]
                  ELSE Put(cards, cardId,
                           [card |-> [id |-> cardId, audio_url |-> NullUrl],
                            cachedAt |-> 0, audioStored |-> FALSE,
                            collectionIds |-> tasks[t].collectionIds])
  /\ tasks' = [tasks EXCEPT ![t].pc = "done", ![t].steps = <<"putMembership">>]
  /\ txq' = Dequeue(txq, "cards", t)
  /\ UNCHANGED <<isBrowser, swCaches, fetchEvents, offlineStatusMap,
                 listeners, unsubscribed, dbPromise, opens, audio,
                 audioObjectUrls, blobUrlStore, now>>

\* The record is read and, when there is one, written back with the new
\* membership set, in one request on the cards store.
UpdateDone(t) ==
  /\ MacroReady
  /\ tasks[t].op = "update" /\ tasks[t].pc = "putMembership"
  /\ CanRun("cards", t)
  /\ LET cardId == tasks[t].cardId IN
       cards' = IF cardId \in DOMAIN cards
                  THEN [cards EXCEPT ![cardId].collectionIds = tasks[t].collectionIds]
                  ELSE cards
  /\ tasks' = [tasks EXCEPT ![t].pc = "done", ![t].steps = <<"putMembership">>]
  /\ txq' = Dequeue(txq, "cards", t)
  /\ UNCHANGED <<isBrowser, swCaches, fetchEvents, offlineStatusMap,
                 listeners, unsubscribed, dbPromise, opens, audio,
                 audioObjectUrls, blobUrlStore, now>>

\* getOfflineCardCollections()
CollectionsCall(t) ==
  /\ MacroReady
  /\ FreeSlot(t)
  /\ LET rec == [IdleTask EXCEPT !.op = "collections"] IN
       IF ~ isBrowser
         THEN /\ tasks' = Started(t, "collections", "-",
                    [rec EXCEPT !.pc = "done", !.result = {<<>>}])
              /\ UNCHANGED <<dbPromise, opens>>
         ELSE /\ tasks' = Started(t, "collections", "-", [rec EXCEPT !.pc = "db"])
              /\ dbPromise' = GetDb /\ opens' = OpensAfterGetDb
  /\ UNCHANGED <<isBrowser, swCaches, fetchEvents, offlineStatusMap,
                 listeners, unsubscribed, cards, audio, audioObjectUrls,
                 blobUrlStore, txq, now>>

CollectionsAfterDb(t) ==
  /\ tasks[t].op = "collections" /\ tasks[t].pc = "db"
  /\ dbPromise = "open"
  /\ tasks' = [tasks EXCEPT ![t].pc = "getCards"]
  /\ txq' = Enqueue(txq, "cards", t, "r")
  /\ UNCHANGED <<isBrowser, swCaches, fetchEvents, offlineStatusMap,
                 listeners, unsubscribed, dbPromise, opens, cards, audio,
                 audioObjectUrls, blobUrlStore, now>>

CollectionsDone(t) ==
  /\ MacroReady
  /\ tasks[t].op = "collections" /\ tasks[t].pc = "getCards"
  /\ CanRun("cards", t)
  /\ tasks' = [tasks EXCEPT ![t].pc = "done",
                            ![t].result = {OfflineCardCollectionsOf(cards)}]
  /\ txq' = Dequeue(txq, "cards", t)
  /\ UNCHANGED <<isBrowser, swCaches, fetchEvents, offlineStatusMap,
                 listeners, unsubscribed, dbPromise, opens, cards, audio,
                 audioObjectUrls, blobUrlStore, now>>

(***************************************************************************)
(* The caller takes the settled promise's value; the slot is free again.    *)
(***************************************************************************)
Collect(t) ==
  /\ tasks[t].pc \in Finished
  /\ tasks' = [tasks EXCEPT ![t] = IdleTask]
  /\ UNCHANGED <<isBrowser, swCaches, fetchEvents, offlineStatusMap,
                 listeners, unsubscribed, dbPromise, opens, cards, audio,
                 audioObjectUrls, blobUrlStore, txq, now>>

(***************************************************************************)
(* The service worker: its fetch listener and its caching strategies.  A    *)
(* fetch event is handled in steps, one per awaited promise; caches.open    *)
(* and cache.match resolve, fetch resolves with a response of any status or *)
(* rejects.  cache.put is not awaited: the entry is written when the        *)
(* response arrives.                                                        *)
(***************************************************************************)
STATIC_CACHE == "flashcards-static-v1"
RUNTIME_CACHE == "flashcards-runtime-v1"
CacheNames == {STATIC_CACHE, RUNTIME_CACHE}
EventSlots == {1, 2}           \* at most two fetch events are handled at a time

Request(method, origin, path) == [method |-> method, origin |-> origin, path |-> path]
Requests ==
  {Request("GET", "self", "/cards"), Request("GET", "self", "/_next/chunk.js"),
   Request("GET", "self", "/api/tts"), Request("POST", "self", "/cards"),
   Request("GET", "supabase.co", "/cards"), Request("GET", "other", "/cards")}
NoRequest == [method |-> "-", origin |-> "-", path |-> "-"]
UrlOf(request) == [origin |-> request.origin, path |-> request.path]

\* What fetch(request) can do: resolve ok, resolve with an error status, reject.
NetworkOutcomes == {"ok", "http404", "neterr"}
StatusOf(outcome) == IF outcome = "ok" THEN 200 ELSE 404
IsOk(status) == status >= 200 /\ status <= 299

NoResponse == [status |-> 0, from |-> "-"]
NetworkResponse(outcome) == [status |-> StatusOf(outcome), from |-> "network"]
CachedResponse(cache, request) ==
  [status |-> swCaches[cache][UrlOf(request)].status, from |-> "cache"]
OfflineResponse == [status |-> 503, from |-> "synthetic"]

IdleEvent ==
  [pc |-> "idle", request |-> NoRequest, strategy |-> "none", answer |-> NoResponse,
   background |-> FALSE, hit |-> "unknown", net |-> "none", hadEntry |-> FALSE]

\* The fetch listener's routing (lines 146-172): the strategy, "none" when the
\* listener returns without event.respondWith.
Route(request) ==
  CASE request.method # "GET" -> "none"
    [] request.origin = "self" /\ request.path = "/api/tts" -> "none"
    [] request.origin = "self" /\ request.path = "/_next/chunk.js" -> "staleWhileRevalidate"
    [] request.origin = "self" -> "cacheFirst"
    [] request.origin = "supabase.co" -> "networkFirst"
    [] OTHER -> "none"

CacheOf(strategy) == IF strategy = "cacheFirst" THEN STATIC_CACHE ELSE RUNTIME_CACHE
Matches(cache, request) == UrlOf(request) \in DOMAIN swCaches[cache]

\* cache.put(request, response.clone())
CachePut(all, cache, request, status) ==
  [all EXCEPT ![cache] =
     [k \in DOMAIN @ \cup {UrlOf(request)} |->
        IF k = UrlOf(request) THEN [status |-> status] ELSE @[k]]]

\* New events take the lowest free slot.
FreeEvent(e) ==
  /\ fetchEvents[e].pc = "idle"
  /\ \A f \in EventSlots : f < e => fetchEvents[f].pc # "idle"

\* The fetch listener (lines 146-172).  hadEntry: the strategy's cache held an
\* entry for the request when the event arrived.
FetchListener(e, request) ==
  /\ FreeEvent(e)
  /\ LET strategy == Route(request) IN
       fetchEvents' = [fetchEvents EXCEPT ![e] =
         [IdleEvent EXCEPT !.request = request, !.strategy = strategy,
                           !.pc = IF strategy = "none" THEN "passed" ELSE "open",
                           !.hadEntry = /\ strategy # "none"
                                        /\ Matches(CacheOf(strategy), request)]]
  /\ UNCHANGED <<swCaches, pageVars>>

\* caches.open resolves (lines 175, 192, 218).
CachesOpened(e) ==
  /\ fetchEvents[e].pc = "open"
  /\ fetchEvents' = [fetchEvents EXCEPT
       ![e].pc = IF fetchEvents[e].strategy = "networkFirst" THEN "fetch" ELSE "match"]
  /\ UNCHANGED <<swCaches, pageVars>>

\* cacheFirst (lines 174-189): cache.match resolves.  A hit starts
\* updateCacheInBackground and answers with the entry; a miss goes to the
\* network.
CacheFirstMatchDone(e) ==
  /\ fetchEvents[e].pc = "match" /\ fetchEvents[e].strategy = "cacheFirst"
  /\ fetchEvents' =
       IF Matches(STATIC_CACHE, fetchEvents[e].request)
         THEN [fetchEvents EXCEPT
                 ![e].pc = "answered", ![e].hit = "hit", ![e].background = TRUE,
                 ![e].answer = CachedResponse(STATIC_CACHE, fetchEvents[e].request)]
         ELSE [fetchEvents EXCEPT ![e].pc = "fetch", ![e].hit = "miss"]
  /\ UNCHANGED <<swCaches, pageVars>>

\* Mutant of CacheFirstFetchDone: no try/catch around the fetch, so a network
\* failure rejects the promise given to respondWith and no response is made.
CacheFirstFetchDoneUncaught(e, outcome) ==
  /\ fetchEvents[e].pc = "fetch" /\ fetchEvents[e].strategy = "cacheFirst"
  /\ IF outcome = "neterr"
       THEN /\ fetchEvents' = [fetchEvents EXCEPT ![e].pc = "rejected", ![e].net = outcome]
            /\ UNCHANGED swCaches
       ELSE /\ swCaches' = CachePut(swCaches, STATIC_CACHE, fetchEvents[e].request,
                                    StatusOf(outcome))
            /\ fetchEvents' = [fetchEvents EXCEPT
                 ![e].pc = "answered", ![e].net = outcome,
                 ![e].answer = NetworkResponse(outcome)]
  /\ UNCHANGED pageVars

\* cacheFirst, the awaited fetch settles (lines 182-188): the response is put
\* in the cache, whatever its status, and returned; a rejection is answered
\* with the Offline response.
CacheFirstFetchDone(e, outcome) ==
  /\ fetchEvents[e].pc = "fetch" /\ fetchEvents[e].strategy = "cacheFirst"
  /\ IF outcome = "neterr"
       THEN /\ fetchEvents' = [fetchEvents EXCEPT
                 ![e].pc = "answered", ![e].net = outcome,
                 ![e].answer = OfflineResponse]
            /\ UNCHANGED swCaches
       ELSE /\ swCaches' = CachePut(swCaches, STATIC_CACHE, fetchEvents[e].request,
                                    StatusOf(outcome))
            /\ fetchEvents' = [fetchEvents EXCEPT
                 ![e].pc = "answered", ![e].net = outcome,
                 ![e].answer = NetworkResponse(outcome)]
  /\ UNCHANGED pageVars

\* updateCacheInBackground (lines 234-242): the fetch settles; an ok response
\* is put in the cache, anything else is dropped.
UpdateCacheInBackgroundDone(e, outcome) ==
  /\ fetchEvents[e].pc = "answered" /\ fetchEvents[e].strategy = "cacheFirst"
  /\ fetchEvents[e].background
  /\ swCaches' = IF outcome # "neterr" /\ IsOk(StatusOf(outcome))
                   THEN CachePut(swCaches, STATIC_CACHE, fetchEvents[e].request,
                                 StatusOf(outcome))
                   ELSE swCaches
  /\ fetchEvents' = [fetchEvents EXCEPT ![e].background = FALSE, ![e].net = outcome]
  /\ UNCHANGED pageVars

\* staleWhileRevalidate (lines 191-207): cache.match resolves and the fetch
\* starts.  A hit is answered with the entry while the fetch goes on
\* (event.waitUntil); a miss waits for the fetch.
StaleMatchDone(e) ==
  /\ fetchEvents[e].pc = "match" /\ fetchEvents[e].strategy = "staleWhileRevalidate"
  /\ fetchEvents' =
       IF Matches(RUNTIME_CACHE, fetchEvents[e].request)
         THEN [fetchEvents EXCEPT
                 ![e].pc = "answered", ![e].hit = "hit", ![e].background = TRUE,
                 ![e].answer = CachedResponse(RUNTIME_CACHE, fetchEvents[e].request)]
         ELSE [fetchEvents EXCEPT ![e].pc = "fetch", ![e].hit = "miss"]
  /\ UNCHANGED <<swCaches, pageVars>>

\* staleWhileRevalidate, fetchPromise settles (lines 195-202, 209-214): an ok
\* response is put in the cache; when the event waits for it, the response is
\* returned, the Offline response after a rejection.
StaleFetchDone(e, outcome) ==
  /\ fetchEvents[e].strategy = "staleWhileRevalidate"
  /\ \/ fetchEvents[e].pc = "fetch"
     \/ fetchEvents[e].pc = "answered" /\ fetchEvents[e].background
  /\ swCaches' = IF outcome # "neterr" /\ IsOk(StatusOf(outcome))
                   THEN CachePut(swCaches, RUNTIME_CACHE, fetchEvents[e].request,
                                 StatusOf(outcome))
                   ELSE swCaches
  /\ fetchEvents' =
       IF fetchEvents[e].pc = "fetch"
         THEN [fetchEvents EXCEPT
                 ![e].pc = "answered", ![e].net = outcome,
                 ![e].answer = IF outcome = "neterr" THEN OfflineResponse
                               ELSE NetworkResponse(outcome)]
         ELSE [fetchEvents EXCEPT ![e].background = FALSE, ![e].net = outcome]
  /\ UNCHANGED pageVars

\* networkFirst, the fetch settles (lines 217-225): an ok response is put in
\* the cache and any response is returned; a rejection goes to the cache.
NetworkFirstFetchDone(e, outcome) ==
  /\ fetchEvents[e].pc = "fetch" /\ fetchEvents[e].strategy = "networkFirst"
  /\ swCaches' = IF outcome # "neterr" /\ IsOk(StatusOf(outcome))
                   THEN CachePut(swCaches, RUNTIME_CACHE, fetchEvents[e].request,
                                 StatusOf(outcome))
                   ELSE swCaches
  /\ fetchEvents' =
       IF outcome = "neterr"
         THEN [fetchEvents EXCEPT ![e].pc = "fallback", ![e].net = outcome]
         ELSE [fetchEvents EXCEPT
                 ![e].pc = "answered", ![e].net = outcome,
                 ![e].answer = NetworkResponse(outcome)]
  /\ UNCHANGED pageVars

\* networkFirst, cache.match in the catch block resolves (lines 226-230).
NetworkFirstMatchDone(e) ==
  /\ fetchEvents[e].pc = "fallback" /\ fetchEvents[e].strategy = "networkFirst"
  /\ fetchEvents' =
       IF Matches(RUNTIME_CACHE, fetchEvents[e].request)
         THEN [fetchEvents EXCEPT
                 ![e].pc = "answered", ![e].hit = "hit",
                 ![e].answer = CachedResponse(RUNTIME_CACHE, fetchEvents[e].request)]
         ELSE [fetchEvents EXCEPT
                 ![e].pc = "answered", ![e].hit = "miss",
                 ![e].answer = OfflineResponse]
  /\ UNCHANGED <<swCaches, pageVars>>

\* The event is over: the browser has the response, or handles the request
\* itself when the listener did not call respondWith, and no fetch of the
\* event is outstanding.
EventOver(e) ==
  /\ \/ fetchEvents[e].pc = "passed"
     \/ fetchEvents[e].pc = "answered" /\ ~ fetchEvents[e].background
  /\ fetchEvents' = [fetchEvents EXCEPT ![e] = IdleEvent]
  /\ UNCHANGED <<swCaches, pageVars>>

\* The steps of the event in slot e.
EventStep(e) ==
  \/ CachesOpened(e)
  \/ CacheFirstMatchDone(e)
  \/ \E outcome \in NetworkOutcomes : CacheFirstFetchDone(e, outcome)
  \/ \E outcome \in NetworkOutcomes : UpdateCacheInBackgroundDone(e, outcome)
  \/ StaleMatchDone(e)
  \/ \E outcome \in NetworkOutcomes : StaleFetchDone(e, outcome)
  \/ \E outcome \in NetworkOutcomes : NetworkFirstFetchDone(e, outcome)
  \/ NetworkFirstMatchDone(e)
  \/ EventOver(e)

Init ==
  /\ isBrowser \in BOOLEAN
  /\ listeners = <<>>
  /\ unsubscribed = {}
  /\ dbPromise = "null"
  /\ opens = 0
  /\ cards = <<>>
  /\ audio = <<>>
  /\ audioObjectUrls = <<>>
  /\ blobUrlStore = {}
  /\ now = 1
  /\ txq = [s \in Stores |-> <<>>]
  /\ offlineStatusMap = <<>>
  /\ swCaches = [c \in CacheNames |-> <<>>]
  /\ fetchEvents = [e \in EventSlots |-> IdleEvent]
  /\ tasks = [t \in Slots |-> IdleTask]

Next ==
  \/ OpenDbDone
  \/ \E t \in Slots, card \in Flashcard : CacheCall(t, card)
  \/ \E t \in Slots : CacheAfterDb(t)
  \/ \E t \in Slots, outcome \in FetchOutcomes : CacheFetchDone(t, outcome)
  \/ \E t \in Slots, ok \in BOOLEAN : CacheBlobDone(t, ok)
  \/ \E t \in Slots : CachePutAudioDone(t)
  \/ \E t \in Slots : CacheDeleteAudioDone(t)
  \/ \E t \in Slots : CachePutCardDone(t)
  \/ \E t \in Slots, cardId \in CardIds : RemoveCall(t, cardId)
  \/ \E t \in Slots : RemoveAfterDb(t)
  \/ \E t \in Slots, s \in Stores : RemoveDeleteDone(t, s)
  \/ \E t \in Slots, cardId \in CardIds, fallback \in {NullUrl, RemoteUrl} :
       PlayCall(t, cardId, fallback)
  \/ \E t \in Slots : PlayAfterDb(t)
  \/ \E t \in Slots : PlayGetDone(t)
  \/ \E t \in Slots : ClearCall(t)
  \/ \E t \in Slots : ClearAfterDb(t)
  \/ \E t \in Slots, s \in Stores : ClearStoreDone(t, s)
  \/ \E t \in Slots, op \in Queries, cardId \in CardIds \cup {"-"} :
       QueryCall(t, op, cardId)
  \/ \E t \in Slots : QueryAfterDb(t)
  \/ \E t \in Slots : QueryDone(t)
  \/ \E t \in Slots : Collect(t)

Spec == Init /\ [][Next]_vars

(***************************************************************************)
(* The event channel: the calls that emit (cacheCardOffline and             *)
(* removeCardFromOffline, on one card identity) in the browser, with        *)
(* listeners subscribing and unsubscribing between their steps.             *)
(***************************************************************************)
EventCards == {card \in Flashcard : card.id = "c1"}

InitEvents == Init /\ isBrowser

NextEvents ==
  \/ \E l \in Listeners : Subscribe(l)
  \/ \E l \in Listeners : Unsubscribe(l)
  \/ OpenDbDone
  \/ \E t \in Slots, card \in EventCards : CacheCall(t, card)
  \/ \E t \in Slots : CacheAfterDb(t)
  \/ \E t \in Slots, outcome \in FetchOutcomes : CacheFetchDone(t, outcome)
  \/ \E t \in Slots, ok \in BOOLEAN : CacheBlobDone(t, ok)
  \/ \E t \in Slots : CachePutAudioDone(t)
  \/ \E t \in Slots : CacheDeleteAudioDone(t)
  \/ \E t \in Slots : CachePutCardDone(t)
  \/ \E t \in Slots, card \in EventCards : RemoveCall(t, card.id)
  \/ \E t \in Slots : RemoveAfterDb(t)
  \/ \E t \in Slots, s \in Stores : RemoveDeleteDone(t, s)
  \/ \E t \in Slots : Collect(t)

SpecEvents == InitEvents /\ [][NextEvents]_vars

(***************************************************************************)
(* Membership: caching with a membership set, membership updates, removal   *)
(* and the two readers, in the browser.                                     *)
(***************************************************************************)
NextCollections ==
  \/ OpenDbDone
  \/ \E t \in Slots, card \in EventCards, collectionIds \in SUBSET CollectionIds :
       CacheCallWith(t, card, collectionIds)
  \/ \E t \in Slots : CacheAfterDb(t)
  \/ \E t \in Slots, outcome \in FetchOutcomes : CacheFetchDone(t, outcome)
  \/ \E t \in Slots, ok \in BOOLEAN : CacheBlobDone(t, ok)
  \/ \E t \in Slots : CachePutAudioDone(t)
  \/ \E t \in Slots : CacheDeleteAudioDone(t)
  \/ \E t \in Slots : CachePutCardDone(t)
  \/ \E t \in Slots, cardId \in CardIds, collectionIds \in SUBSET CollectionIds :
       UpdateCall(t, cardId, collectionIds)
  \/ \E t \in Slots : UpdateAfterDb(t)
  \/ \E t \in Slots : UpdateDone(t)
  \/ \E t \in Slots : CollectionsCall(t)
  \/ \E t \in Slots : CollectionsAfterDb(t)
  \/ \E t \in Slots : CollectionsDone(t)
  \/ \E t \in Slots, card \in EventCards : RemoveCall(t, card.id)
  \/ \E t \in Slots : RemoveAfterDb(t)
  \/ \E t \in Slots, s \in Stores : RemoveDeleteDone(t, s)
  \/ \E t \in Slots : Collect(t)

SpecCollections == InitEvents /\ [][NextCollections]_vars

(***************************************************************************)
(* cacheCardOffline in the browser with database requests that can fail.    *)
(***************************************************************************)
NextDbFail ==
  \/ OpenDbDone
  \/ \E t \in Slots, card \in Flashcard : CacheCall(t, card)
  \/ \E t \in Slots : CacheAfterDb(t)
  \/ \E t \in Slots, outcome \in FetchOutcomes : CacheFetchDone(t, outcome)
  \/ \E t \in Slots, ok \in BOOLEAN : CacheBlobDone(t, ok)
  \/ \E t \in Slots : CachePutAudioDone(t)
  \/ \E t \in Slots : CachePutAudioFailed(t)
  \/ \E t \in Slots : CacheDeleteAudioDone(t)
  \/ \E t \in Slots : CacheDeleteAudioFailed(t)
  \/ \E t \in Slots : CachePutCardDone(t)
  \/ \E t \in Slots : CachePutCardFailed(t)
  \/ \E t \in Slots : Collect(t)

SpecDbFail == InitEvents /\ [][NextDbFail]_vars

(***************************************************************************)
(* The calls the card list makes (HskCategoryList.tsx) in the browser, with *)
(* database requests that can fail: handleToggleOffline awaits              *)
(* cacheCardOffline and removeCardFromOffline in a try block (lines         *)
(* 728-753), handleDeleteCard drops the promise (line 914).                 *)
(***************************************************************************)
NextUi ==
  \/ OpenDbDone
  \/ \E t \in Slots, card \in EventCards : CacheCall(t, card)
  \/ \E t \in Slots : CacheAfterDb(t)
  \/ \E t \in Slots, outcome \in FetchOutcomes : CacheFetchDone(t, outcome)
  \/ \E t \in Slots, ok \in BOOLEAN : CacheBlobDone(t, ok)
  \/ \E t \in Slots : CachePutAudioDone(t)
  \/ \E t \in Slots : CachePutAudioFailed(t)
  \/ \E t \in Slots : CacheDeleteAudioDone(t)
  \/ \E t \in Slots : CacheDeleteAudioFailed(t)
  \/ \E t \in Slots : CachePutCardDone(t)
  \/ \E t \in Slots : CachePutCardFailed(t)
  \/ \E t \in Slots, card \in EventCards : RemoveCall(t, card.id)
  \/ \E t \in Slots, card \in EventCards : HandleDeleteCard(t, card.id)
  \/ \E t \in Slots : RemoveAfterDb(t)
  \/ \E t \in Slots, s \in Stores : RemoveDeleteDone(t, s)
  \/ \E t \in Slots, s \in Stores : RemoveDeleteFailed(t, s)
  \/ \E t \in Slots, s \in Stores, ok \in BOOLEAN : RemoveRestDone(t, s, ok)
  \/ \E t \in Slots : Collect(t)

SpecUi == InitEvents /\ [][NextUi]_vars

(***************************************************************************)
(* Caching a card from the list (handleToggleOffline) and deleting it       *)
(* (handleDeleteCard), in the browser, with no request failing.             *)
(***************************************************************************)
NextRace ==
  \/ OpenDbDone
  \/ \E t \in Slots, card \in EventCards : CacheCall(t, card)
  \/ \E t \in Slots : CacheAfterDb(t)
  \/ \E t \in Slots, outcome \in FetchOutcomes : CacheFetchDone(t, outcome)
  \/ \E t \in Slots, ok \in BOOLEAN : CacheBlobDone(t, ok)
  \/ \E t \in Slots : CachePutAudioDone(t)
  \/ \E t \in Slots : CacheDeleteAudioDone(t)
  \/ \E t \in Slots : CachePutCardDone(t)
  \/ \E t \in Slots, card \in EventCards : HandleDeleteCard(t, card.id)
  \/ \E t \in Slots : RemoveAfterDb(t)
  \/ \E t \in Slots, s \in Stores : RemoveDeleteDone(t, s)
  \/ \E t \in Slots : Collect(t)

SpecRace == InitEvents /\ [][NextRace]_vars

(***************************************************************************)
(* The open of the database can fail: cacheCardOffline,                     *)
(* removeCardFromOffline and the readers in the browser.                    *)
(***************************************************************************)
NextOpen ==
  \/ OpenDbDone
  \/ OpenDbFailed
  \/ \E t \in Slots : AwaitDbRejected(t)
  \/ \E t \in Slots, card \in EventCards : CacheCall(t, card)
  \/ \E t \in Slots : CacheAfterDb(t)
  \/ \E t \in Slots, outcome \in FetchOutcomes : CacheFetchDone(t, outcome)
  \/ \E t \in Slots, ok \in BOOLEAN : CacheBlobDone(t, ok)
  \/ \E t \in Slots : CachePutAudioDone(t)
  \/ \E t \in Slots : CacheDeleteAudioDone(t)
  \/ \E t \in Slots : CachePutCardDone(t)
  \/ \E t \in Slots, card \in EventCards : RemoveCall(t, card.id)
  \/ \E t \in Slots : RemoveAfterDb(t)
  \/ \E t \in Slots, s \in Stores : RemoveDeleteDone(t, s)
  \/ \E t \in Slots, op \in Queries, cardId \in {"c1", "-"} :
       QueryCall(t, op, cardId)
  \/ \E t \in Slots : QueryAfterDb(t)
  \/ \E t \in Slots : QueryDone(t)
  \/ \E t \in Slots : Collect(t)

SpecOpen == InitEvents /\ [][NextOpen]_vars

(***************************************************************************)
(* Emission with callbacks that change the listener set: removals of one    *)
(* card in the browser, one call at a time, three callbacks.                *)
(***************************************************************************)
NextEmit ==
  \/ \E l \in EmitListeners : Subscribe(l)
  \/ \E l \in EmitListeners : Unsubscribe(l)
  \/ OpenDbDone
  \/ \E card \in EventCards : RemoveCall(1, card.id)
  \/ \E t \in Slots : RemoveAfterDb(t)
  \/ \E t \in Slots, s \in Stores : RemoveDeleteDoneReentrant(t, s)
  \/ \E t \in Slots : Collect(t)

SpecEmit == InitEvents /\ [][NextEmit]_vars

(***************************************************************************)
(* The card list and the event channel: the list's listener subscribes and  *)
(* unsubscribes (HskCategoryList.tsx, lines 409-424) while cards are        *)
(* cached, removed and the cache is cleared, in the browser (one identity). *)
(***************************************************************************)
NextBus ==
  \/ Subscribe(UiListener)
  \/ Unsubscribe(UiListener)
  \/ OpenDbDone
  \/ \E t \in Slots, card \in EventCards : CacheCall(t, card)
  \/ \E t \in Slots : CacheAfterDb(t)
  \/ \E t \in Slots, outcome \in FetchOutcomes : CacheFetchDone(t, outcome)
  \/ \E t \in Slots, ok \in BOOLEAN : CacheBlobDone(t, ok)
  \/ \E t \in Slots : CachePutAudioDone(t)
  \/ \E t \in Slots : CacheDeleteAudioDone(t)
  \/ \E t \in Slots : CachePutCardDone(t)
  \/ \E t \in Slots, card \in EventCards : RemoveCall(t, card.id)
  \/ \E t \in Slots : RemoveAfterDb(t)
  \/ \E t \in Slots, s \in Stores : RemoveDeleteDone(t, s)
  \/ \E t \in Slots : ClearCall(t)
  \/ \E t \in Slots : ClearAfterDb(t)
  \/ \E t \in Slots, s \in Stores : ClearStoreDone(t, s)
  \/ \E t \in Slots : Collect(t)

SpecBus == InitEvents /\ [][NextBus]_vars

(***************************************************************************)
(* The service worker handling fetch events.  SpecSwFair adds what the      *)
(* event loop guarantees: a promise that can settle does settle, so every   *)
(* event in progress takes its next step.                                   *)
(***************************************************************************)
NextSw ==
  \/ \E e \in EventSlots, request \in Requests : FetchListener(e, request)
  \/ \E e \in EventSlots : CachesOpened(e)
  \/ \E e \in EventSlots : CacheFirstMatchDone(e)
  \/ \E e \in EventSlots, outcome \in NetworkOutcomes : CacheFirstFetchDone(e, outcome)
  \/ \E e \in EventSlots, outcome \in NetworkOutcomes :
       UpdateCacheInBackgroundDone(e, outcome)
  \/ \E e \in EventSlots : StaleMatchDone(e)
  \/ \E e \in EventSlots, outcome \in NetworkOutcomes : StaleFetchDone(e, outcome)
  \/ \E e \in EventSlots, outcome \in NetworkOutcomes : NetworkFirstFetchDone(e, outcome)
  \/ \E e \in EventSlots : NetworkFirstMatchDone(e)
  \/ \E e \in EventSlots : EventOver(e)

SpecSw == InitEvents /\ [][NextSw]_vars

SpecSwFair == SpecSw /\ \A e \in EventSlots : WF_vars(EventStep(e))

(***************************************************************************)
(* Properties.                                                              *)
(***************************************************************************)
Has(seq, x) == \E i \in DOMAIN seq : seq[i] = x
CacheDone(t) == tasks[t].op = "cache" /\ tasks[t].pc = "done"
LiveUrls == {h.url : h \in blobUrlStore}

\* C1: re-caching a card that has a stored audio record, when the fetch now
\* fails, keeps a card record, reports audioStored = false in the result, the
\* event and the card record, and leaves no audio record for the identity once
\* the call has resolved.  (Violated: the catch block leaves the old record.)
C1_RecacheFetchFailureLeavesNoAudio ==
  \A t \in Slots :
    (CacheDone(t) /\ tasks[t].solo /\ tasks[t].hadAudio
       /\ Has(tasks[t].steps, "fetchFailed"))
    => LET id == tasks[t].card.id
           detail == Detail(id, TRUE, FALSE)
       IN /\ id \in DOMAIN cards
          /\ tasks[t].result = {detail}
          /\ tasks[t].emitted = <<detail>>
          /\ ~ cards[id].audioStored
          /\ id \notin DOMAIN audio

\* C2: in the browser, once cacheCard(C) has resolved, and no other cacheCard,
\* remove or clear for C.id overlapped it, getOfflineCard(C.id) returns C,
\* whatever the store held before and however the audio step went.
C2_CachedSnapshotIsReturned ==
  \A t \in Slots :
    (CacheDone(t) /\ tasks[t].solo)
    => OfflineCardOf(cards, tasks[t].card.id) = {tasks[t].card}

\* A card without audio URL has been cached over one cached with its audio.
C2_Witness ==
  \E t \in Slots :
    /\ CacheDone(t) /\ tasks[t].solo
    /\ tasks[t].hadAudio /\ tasks[t].card.audio_url = NullUrl

\* C3: a failed audio fetch does not block caching: the call writes nothing to
\* the audio store, still writes the card record, resolves (never rejects) and
\* reports audioStored = false; then the status snapshot maps the identity to
\* audioStored = false and getOfflineCard returns the card.
C3_FetchFailureDoesNotBlockCaching ==
  \A t \in Slots :
    (tasks[t].op = "cache" /\ Has(tasks[t].steps, "fetchFailed"))
    => LET id == tasks[t].card.id IN
         /\ tasks[t].pc \in {"putCard", "done"}
         /\ ~ Has(tasks[t].steps, "putAudio")
         /\ id \in DOMAIN audio => audio[id].cachedAt # tasks[t].cachedAt
         /\ tasks[t].pc = "done" =>
              /\ Has(tasks[t].steps, "putCard")
              /\ tasks[t].result = {Detail(id, TRUE, FALSE)}
              /\ tasks[t].solo =>
                   /\ OfflineCardOf(cards, id) = {tasks[t].card}
                   /\ id \in DOMAIN StatusSnapshotOf(cards)
                   /\ StatusSnapshotOf(cards)[id] = FALSE

C3_Witness ==
  \E t \in Slots :
    CacheDone(t) /\ tasks[t].solo /\ Has(tasks[t].steps, "fetchFailed")

\* C4: in every reachable state there is at most one created and not yet
\* revoked playable URL per card identity.  (Violated: two calls suspended at
\* the database read each create one.)
C4_OneLiveUrlPerCard ==
  \A id \in CardIds : Cardinality({h \in blobUrlStore : h.cardId = id}) <= 1

\* C5: once a cacheCard(id) call has resolved (the card record carries its
\* cachedAt and no call writing id is in flight), no getPlayableAudioUrl(id)
\* call returns, or leaves in the map, a handle created from audio stored
\* before that cacheCard call.  (Violated: after a failed fetch the old audio
\* record is still there to be played.)
C5_NoStaleHandleAfterRecache ==
  \A h \in blobUrlStore :
    (/\ h.cardId \in DOMAIN cards
     /\ ~ \E w \in Slots :
           InFlight(w) /\ Conflicts("cache", h.cardId, tasks[w].op, tasks[w].cardId)
     /\ \/ ExistingUrl(audioObjectUrls, h.cardId) = h.url
        \/ \E t \in Slots : /\ tasks[t].op = "play" /\ tasks[t].pc = "done"
                            /\ tasks[t].result = {h.url})
    => h.blob.at >= cards[h.cardId].cachedAt

\* C6: within one cacheCard call the audio step (store, delete or failed
\* fetch) comes first, then the card write, then the invalidation of the
\* handle, then the event; so when the event is emitted the call's card record
\* is in the cards store and, if the event says audioStored, its audio record
\* has been written (and is in the audio store when nothing overlapped).
C6_CacheStepsInOrder ==
  \A t \in Slots :
    tasks[t].op = "cache" =>
      LET id == tasks[t].card.id
          written == id \in DOMAIN cards /\ cards[id].cachedAt = tasks[t].cachedAt
      IN
        /\ tasks[t].pc # "done" =>
             /\ tasks[t].emitted = <<>>
             /\ tasks[t].revoked = NullUrl
             /\ tasks[t].cachedAt # 0 => ~ written
        /\ tasks[t].emitted # <<>> =>
             /\ tasks[t].emitted = <<Detail(id, TRUE, tasks[t].audioStored)>>
             /\ \E a \in {"putAudio", "deleteAudio", "fetchFailed"} :
                  tasks[t].steps = <<a, "putCard", "revoke", "emit">>
             /\ written
             /\ cards[id].card = tasks[t].card
             /\ id \notin DOMAIN audioObjectUrls
             /\ tasks[t].audioStored =>
                  /\ tasks[t].steps[1] = "putAudio"
                  /\ tasks[t].solo =>
                       id \in DOMAIN audio /\ audio[id].cachedAt = tasks[t].cachedAt

\* The event reports stored audio, and a handle was invalidated before it.
C6_Witness ==
  \E t \in Slots :
    /\ CacheDone(t) /\ tasks[t].emitted # <<>>
    /\ tasks[t].audioStored /\ tasks[t].revoked # NullUrl

\* What a call returns when it returns nothing, null, false, {} or [].
EmptyResult(t) ==
  CASE tasks[t].op = "play" -> tasks[t].result = {NullUrl}
    [] tasks[t].op = "isCached" -> tasks[t].result = {FALSE}
    [] tasks[t].op = "status" -> tasks[t].result = {<<>>}
    [] tasks[t].op = "getAll" -> tasks[t].result = {{}}
    [] OTHER -> tasks[t].result = {}

NothingStored ==
  /\ dbPromise = "null"
  /\ cards = <<>> /\ audio = <<>>
  /\ audioObjectUrls = <<>> /\ blobUrlStore = {}
  /\ \A s \in Stores : txq[s] = <<>>

C8_StatusIsProjectionOfStore ==
  (\A t \in Slots : ~ InFlight(t)) =>
    LET snapshot == StatusSnapshotOf(cards) IN
      /\ DOMAIN snapshot = DOMAIN cards
      /\ \A id \in DOMAIN snapshot : snapshot[id] = (id \in DOMAIN audio)

\* C9: caching a card without audio URL deletes the audio record stored under
\* its identity, and once the call has resolved getPlayableAudioUrl(id, null)
\* returns null, even if an audio record and a handle existed before.
C9_NoAudioUrlThenNothingToPlay ==
  \A t \in Slots :
    (CacheDone(t) /\ tasks[t].solo /\ tasks[t].card.audio_url = NullUrl)
    => LET id == tasks[t].card.id IN
         /\ Has(tasks[t].steps, "deleteAudio")
         /\ id \notin DOMAIN audio
         /\ tasks[t].revoked \notin LiveUrls
         /\ PlayableUrlOf(audioObjectUrls, audio, id, NullUrl, ObjectUrl(0)) = NullUrl

C9_Witness ==
  \E t \in Slots :
    /\ CacheDone(t) /\ tasks[t].solo /\ tasks[t].card.audio_url = NullUrl
    /\ tasks[t].hadAudio /\ tasks[t].revoked # NullUrl

\* C10: once removeCardFromOffline(id) has resolved, with nothing overlapping
\* on id, neither store holds a record for id, getOfflineCard(id) returns
\* not-found, the status snapshot has no entry for id, and the handle the map
\* held for id has been revoked.
C10_RemovedCardIsGone ==
  \A t \in Slots :
    (tasks[t].op = "remove" /\ tasks[t].pc = "done" /\ tasks[t].solo)
    => LET id == tasks[t].cardId IN
         /\ id \notin DOMAIN cards
         /\ id \notin DOMAIN audio
         /\ OfflineCardOf(cards, id) = {}
         /\ id \notin DOMAIN StatusSnapshotOf(cards)
         /\ id \notin DOMAIN audioObjectUrls
         /\ tasks[t].revoked \notin LiveUrls

C10_Witness ==
  \E t \in Slots :
    /\ tasks[t].op = "remove" /\ tasks[t].pc = "done" /\ tasks[t].solo
    /\ tasks[t].revoked # NullUrl

\* C11: removeCardFromOffline is idempotent.  In the browser every call, also
\* one for an identity that holds no record (never cached, or just removed),
\* resolves without error and has emitted exactly one
\* {cardId, cached: false, audioStored: false} event; when no other call writing
\* the identity overlapped it, the identity then has no card record, no audio
\* record and no map entry, which is the state a single call leaves.
C11_RemoveIsIdempotent ==
  \A t \in Slots :
    (isBrowser /\ tasks[t].op = "remove" /\ tasks[t].pc \in Finished)
    => LET id == tasks[t].cardId IN
         /\ tasks[t].pc = "done"
         /\ tasks[t].result = {}
         /\ tasks[t].emitted = <<Detail(id, FALSE, FALSE)>>
         /\ tasks[t].solo => /\ id \notin DOMAIN cards
                             /\ id \notin DOMAIN audio
                             /\ id \notin DOMAIN audioObjectUrls
\* a removal of an identity that held no record when the call started has resolved
C11_Witness ==
  \E t \in Slots :
    /\ isBrowser /\ tasks[t].op = "remove" /\ tasks[t].pc = "done" /\ tasks[t].solo
    /\ ~ tasks[t].hadCard /\ ~ tasks[t].hadAudio

\* how many times the call in slot t invoked listener l
TimesHeard(t, l) ==
  Cardinality({i \in DOMAIN tasks[t].heard : tasks[t].heard[i].listener = l})

\* C12: a cacheCardOffline call that has settled passed exactly one event to
\* emit, {cardId of the card, cached: true, audioStored} with audioStored true
\* exactly when the call fetched and stored the audio; a listener subscribed
\* before the call (and subscribed at the emission) was invoked exactly once, a
\* listener whose unsubscribe function had been called before the call (and
\* that has not subscribed again) was not invoked.
C12_SubscribedListenerHearsOnce ==
  \A t \in Slots :
    (tasks[t].op = "cache" /\ tasks[t].pc \in Finished)
    => /\ tasks[t].emitted =
            <<Detail(tasks[t].card.id, TRUE, Has(tasks[t].steps, "putAudio"))>>
       /\ \A l \in Listeners :
            /\ (l \in tasks[t].subsAtStart /\ l \in Range(listeners))
                 => TimesHeard(t, l) = 1
            /\ (l \in tasks[t].offAtStart /\ l \in unsubscribed)
                 => TimesHeard(t, l) = 0
\* a call that stored the audio has settled, one listener subscribed before it
\* and still subscribed, another unsubscribed before it
C12_Witness ==
  \E t \in Slots :
    /\ CacheDone(t) /\ tasks[t].audioStored
    /\ \E l \in tasks[t].subsAtStart : l \in Range(listeners)
    /\ \E l \in tasks[t].offAtStart : l \in unsubscribed

\* C13: the value cacheCardOffline returns is the triple it passed to emit,
\* {cardId, cached: true, audioStored}, and its audioStored is the flag of the
\* card record the call wrote.
C13_ResultIsEmittedTriple ==
  \A t \in Slots :
    CacheDone(t)
    => LET id == tasks[t].card.id IN
         /\ id \in DOMAIN cards
         /\ cards[id].cachedAt = tasks[t].cachedAt
         /\ tasks[t].result = {Detail(id, TRUE, cards[id].audioStored)}
         /\ tasks[t].emitted = <<Detail(id, TRUE, cards[id].audioStored)>>
\* a call for a card with an audio URL has returned audioStored = false
C13_Witness ==
  \E t \in Slots :
    CacheDone(t) /\ tasks[t].card.audio_url # NullUrl /\ ~ tasks[t].audioStored

\* C15: emit invokes the listeners one after the other in subscription order,
\* within the emitting step; a listener that throws stops neither the
\* listeners after it nor the emitting call, which resolves.
C15_ThrowingListenerIsContained ==
  \A t \in Slots :
    (tasks[t].op \in {"cache", "remove"} /\ tasks[t].pc \in Finished)
    => /\ tasks[t].pc = "done"
       /\ Len(tasks[t].heard) = Len(listeners)
       /\ \A i \in DOMAIN listeners : tasks[t].heard[i].listener = listeners[i]
\* an emitting call has resolved although the first of two listeners threw
C15_Witness ==
  \E t \in Slots :
    /\ tasks[t].op \in {"cache", "remove"} /\ tasks[t].pc = "done"
    /\ Len(tasks[t].heard) = 2 /\ tasks[t].heard[1].threw

PlayDone(t) == tasks[t].op = "play" /\ tasks[t].pc = "done"

\* C14: in the browser getPlayableAudioUrl(cardId, fallback) returns the URL the
\* map held for cardId when it was called, creating nothing; otherwise, when the
\* audio store holds a record, a URL it has just created from the stored blob
\* and put in the map, so that the next call finds it there; otherwise the
\* fallback, which is null when none was supplied.
C14_PlayableUrlPriority ==
  \A t \in Slots :
    (isBrowser /\ PlayDone(t))
    => LET id == tasks[t].cardId IN
         \E url \in tasks[t].result :
           /\ tasks[t].result = {url}
           /\ IF tasks[t].hadUrl
                THEN /\ tasks[t].steps = <<"fromMap">>
                     /\ ExistingUrl(audioObjectUrls, id) = url
                ELSE IF id \in DOMAIN audio
                  THEN /\ tasks[t].steps = <<"get", "create", "set">>
                       /\ [url |-> url, cardId |-> id, blob |-> audio[id].blob]
                            \in blobUrlStore
                       /\ PlayableUrlOf(audioObjectUrls, audio, id,
                                        tasks[t].fallback, NullUrl) = url
                  ELSE /\ tasks[t].steps = <<"get", "fallback">>
                       /\ url = tasks[t].fallback
\* a call has returned a URL it created from the stored blob
C14_Witness ==
  \E t \in Slots :
    isBrowser /\ PlayDone(t) /\ ~ tasks[t].hadUrl /\ Has(tasks[t].steps, "create")

\* C16: opening the database is single-flight.  openDB is called at most once,
\* and exactly once as soon as any call has asked for the database, however
\* many calls ask while the open is pending; every call that has its database
\* handle has the one that open produced.
C16_OpenIsSingleFlight ==
  /\ opens <= 1
  /\ (opens = 0) = (dbPromise = "null")
  /\ \A t \in Slots :
       (InFlight(t) /\ tasks[t].pc # "db") => (dbPromise = "open" /\ opens = 1)
\* two calls wait for the database while the one open is pending
C16_Witness ==
  /\ dbPromise = "pending"
  /\ \A t \in Slots : tasks[t].pc = "db"

\* C17: once clearOfflineCache() has resolved in the browser (no
\* cacheCardOffline or removeCardFromOffline overlapping it), the cards store
\* and the audio store are empty, the map is empty and no object URL is live
\* for any identity, also when getPlayableAudioUrl calls were in flight while
\* it ran.
C17_ClearLeavesNothing ==
  \A t \in Slots :
    (isBrowser /\ tasks[t].op = "clear" /\ tasks[t].pc = "done" /\ tasks[t].solo)
    => /\ cards = <<>>
       /\ audio = <<>>
       /\ audioObjectUrls = <<>>
       /\ blobUrlStore = {}

UpdateDoneAt(t) == tasks[t].op = "update" /\ tasks[t].pc = "done"

C19_UpdateTouchesOnlyMembership ==
  [][\A t \in Slots :
       (tasks[t].op = "update" /\ tasks[t].pc # "done" /\ tasks'[t].pc = "done")
       => LET id == tasks[t].cardId IN
            /\ audio' = audio
            /\ audioObjectUrls' = audioObjectUrls
            /\ blobUrlStore' = blobUrlStore
            /\ tasks'[t].emitted = <<>>
            /\ DOMAIN OfflineCardCollectionsOf(cards') = DOMAIN cards
            /\ \A k \in DOMAIN cards :
                 /\ cards'[k].card = cards[k].card
                 /\ cards'[k].cachedAt = cards[k].cachedAt
                 /\ cards'[k].audioStored = cards[k].audioStored
                 /\ cards'[k].collectionIds =
                      IF k = id THEN tasks[t].collectionIds ELSE cards[k].collectionIds
    ]_vars
\* an update has replaced the membership set of a cached card that has audio
C19_Witness ==
  \E t \in Slots :
    /\ UpdateDoneAt(t) /\ tasks[t].hadCard /\ tasks[t].hadAudio /\ tasks[t].solo
    /\ tasks[t].cardId \in DOMAIN cards
    /\ cards[tasks[t].cardId].collectionIds = tasks[t].collectionIds
    /\ tasks[t].collectionIds # {}

DbFailures == {"putAudioFailed", "deleteAudioFailed", "putCardFailed"}

\* C20, as claimed: a database request of cacheCardOffline that fails (the audio
\* put, the audio delete or the card put) is not caught where it is raised: the
\* call rejects and emits no event.  (Violated: the audio put is inside the try
\* block.)
C20_DbFailureRejects ==
  \A t \in Slots :
    (tasks[t].op = "cache" /\ \E f \in DbFailures : Has(tasks[t].steps, f))
    => /\ tasks[t].emitted = <<>>
       /\ tasks[t].pc \in Finished => tasks[t].pc = "failed"

\* C20, amended: a failed audio delete or card put rejects the call, with no
\* event emitted and no card record written by the call; a failed audio put is
\* caught with the fetch failures: the call writes no audio record, goes on to
\* the card put and, when that succeeds, resolves and emits audioStored = false.
C20_DbFailureAmended ==
  \A t \in Slots :
    tasks[t].op = "cache"
    => LET id == tasks[t].card.id
           written == id \in DOMAIN cards /\ cards[id].cachedAt = tasks[t].cachedAt
       IN
         /\ (Has(tasks[t].steps, "deleteAudioFailed") \/ Has(tasks[t].steps, "putCardFailed"))
              => /\ tasks[t].pc = "failed"
                 /\ tasks[t].emitted = <<>>
                 /\ ~ written
         /\ Has(tasks[t].steps, "putAudioFailed")
              => /\ tasks[t].pc \in {"putCard", "done", "failed"}
                 /\ ~ tasks[t].audioStored
                 /\ id \in DOMAIN audio => audio[id].cachedAt # tasks[t].cachedAt
                 /\ tasks[t].pc = "done"
                      => /\ tasks[t].result = {Detail(id, TRUE, FALSE)}
                         /\ tasks[t].emitted = <<Detail(id, TRUE, FALSE)>>
                 /\ tasks[t].pc = "failed" => Has(tasks[t].steps, "putCardFailed")
\* a call has rejected on a failed card put after its failed audio put was caught
C20_Witness ==
  \E t \in Slots :
    /\ tasks[t].op = "cache" /\ tasks[t].pc = "failed"
    /\ Has(tasks[t].steps, "putAudioFailed") /\ Has(tasks[t].steps, "putCardFailed")


\* C21: no cache operation started by the card list ends as an unhandled
\* rejection: a call that rejects was awaited in a try block or had a handler
\* attached, the call made by handleDeleteCard included.
C21_NoUnhandledRejection ==
  \A t \in Slots : tasks[t].pc = "failed" => tasks[t].handled


\* C22: events are not buffered.  The card list's view changes only in a step
\* in which a call emits while the list's listener is subscribed (subscribing
\* delivers nothing emitted earlier), and the listeners an emit invokes are
\* subscribed at that moment and not unsubscribed.
C22_NoBuffering ==
  [][/\ offlineStatusMap' # offlineStatusMap
          => /\ UiListener \in Range(listeners)
             /\ \E t \in Slots : Len(tasks'[t].emitted) > Len(tasks[t].emitted)
     /\ \A t \in Slots :
          Len(tasks'[t].emitted) > Len(tasks[t].emitted)
          => \A i \in DOMAIN tasks'[t].heard :
               /\ tasks'[t].heard[i].listener \in Range(listeners)
               /\ tasks'[t].heard[i].listener \notin unsubscribed]_vars
\* the listener is subscribed and no call is running, c1 is cached, yet the
\* view has no entry: the event of that caching was emitted before it subscribed
C22_Witness ==
  /\ UiListener \in Range(listeners)
  /\ \A t \in Slots : tasks[t].pc = "idle"
  /\ "c1" \in DOMAIN cards
  /\ offlineStatusMap = <<>>


\* C23: no per-identity lock, last write wins in each record space.  Whatever
\* the space holds and whichever call wrote it, a cacheCardOffline call's card
\* put leaves its own record (its timestamp, its audioStored flag) in the
\* cards space, its audio put leaves its own record in the audio space and
\* its audio delete leaves none.  (That the two final records can come from
\* different calls, the flag not describing the audio record, is the witness.)
C23_LastWriteWins ==
  [][\A t \in Slots :
       tasks[t].op = "cache"
       => LET id == tasks[t].card.id IN
            /\ (tasks[t].pc = "putCard" /\ tasks'[t].pc = "done")
                 => /\ id \in DOMAIN cards'
                    /\ cards'[id].cachedAt = tasks[t].cachedAt
                    /\ cards'[id].audioStored = tasks[t].audioStored
            /\ (tasks[t].pc = "putAudio" /\ tasks'[t].pc = "putCard")
                 => /\ id \in DOMAIN audio'
                    /\ audio'[id].cachedAt = tasks[t].cachedAt
            /\ (tasks[t].pc = "deleteAudio" /\ tasks'[t].pc = "putCard")
                 => id \notin DOMAIN audio']_vars
\* two overlapping calls on an identity that had no audio record have both
\* written: the audio record is the other call's, the card record is this
\* call's and says audioStored = false
C23_Witness ==
  \E t \in Slots :
    LET id == tasks[t].card.id IN
      /\ CacheDone(t) /\ ~ tasks[t].solo /\ ~ tasks[t].hadAudio
      /\ \A u \in Slots \ {t} : ~ InFlight(u)
      /\ id \in DOMAIN audio /\ audio[id].cachedAt # tasks[t].cachedAt
      /\ id \in DOMAIN cards /\ cards[id].cachedAt = tasks[t].cachedAt
      /\ ~ cards[id].audioStored


\* C24: a removal that starts while the only cacheCardOffline call for its
\* identity is in flight wins: once both calls have resolved, the identity is
\* in neither store and the call that resolved last, whose event is the last
\* one delivered, emitted cached = false.
C24_RemovalWinsOverCaching ==
  \A t \in Slots :
    (/\ tasks[t].pc = "done" /\ tasks[t].raced
     /\ now = 2
     /\ \A u \in Slots \ {t} : ~ InFlight(u))
    => /\ tasks[t].cardId \notin DOMAIN cards
       /\ tasks[t].cardId \notin DOMAIN audio
       /\ ~ tasks[t].emitted[Len(tasks[t].emitted)].cached


\* The records and handles of identity k: its card record, its audio record,
\* its entry of audioObjectUrls and its live object URLs.
StateOf(k, cardStore, audioStore, map, urlStore) ==
  [card |-> IF k \in DOMAIN cardStore THEN {cardStore[k]} ELSE {},
   audio |-> IF k \in DOMAIN audioStore THEN {audioStore[k]} ELSE {},
   handle |-> IF k \in DOMAIN map THEN {map[k]} ELSE {},
   live |-> {h \in urlStore : h.cardId = k}]

\* C25: cacheCardOffline(C) and removeCardFromOffline(id) touch their own
\* identity only.  Every step of such a call, from the call to its return,
\* leaves the card record, the audio record, the map entry and the live URLs
\* of every other identity as they were, and every event it emits carries
\* its own cardId.
C25_OnlyOwnIdentity ==
  [][\A t \in Slots :
       LET rec == IF tasks[t].op = "none" THEN tasks'[t] ELSE tasks[t] IN
         (/\ rec.op \in {"cache", "remove"}
          /\ (tasks'[t].pc # tasks[t].pc \/ tasks'[t].pending # tasks[t].pending))
         => /\ \A k \in CardIds \ {rec.cardId} :
                 StateOf(k, cards', audio', audioObjectUrls', blobUrlStore')
                   = StateOf(k, cards, audio, audioObjectUrls, blobUrlStore)
            /\ \A i \in DOMAIN tasks'[t].emitted :
                 tasks'[t].emitted[i].cardId = rec.cardId]_vars
\* a call on c1 has returned while c2 has a card record, an audio record and a
\* live playable URL
C25_Witness ==
  \E t \in Slots :
    /\ tasks[t].op \in {"cache", "remove"} /\ tasks[t].pc = "done"
    /\ tasks[t].cardId = "c1"
    /\ "c2" \in DOMAIN cards /\ "c2" \in DOMAIN audio
    /\ "c2" \in DOMAIN audioObjectUrls
    /\ \E h \in blobUrlStore : h.cardId = "c2"


\* C26: clearOfflineCache emits no status event.  No step of the call invokes
\* a listener or changes the card list's view, so when it returns the view
\* lists what it listed before; and a clear that no other writer overlapped
\* returns with both stores empty.
C26_ClearEmitsNothing ==
  [][\A t \in Slots :
       (/\ tasks[t].op = "clear"
        /\ (tasks'[t].pc # tasks[t].pc \/ tasks'[t].pending # tasks[t].pending))
       => /\ offlineStatusMap' = offlineStatusMap
          /\ tasks'[t].emitted = <<>> /\ tasks'[t].heard = <<>>
          /\ (tasks'[t].pc = "done" /\ tasks[t].solo)
               => cards' = <<>> /\ audio' = <<>>]_vars
\* a clear has returned with the store empty while the list's listener is
\* subscribed and its view still lists c1 as cached
C26_Witness ==
  \E t \in Slots :
    /\ tasks[t].op = "clear" /\ tasks[t].pc = "done" /\ tasks[t].solo
    /\ UiListener \in Range(listeners)
    /\ cards = <<>> /\ audio = <<>>
    /\ "c1" \in DOMAIN offlineStatusMap


\* C27: a failed open is never retried.  Once the open has been rejected,
\* dbPromise stays rejected and openDB is not called again (it was called
\* once); no call gets past `await getDb()`, and every call that settles has
\* rejected with the failure of the open.
C27_FailedOpenIsNotRetried ==
  /\ [](dbPromise = "rejected"
          => /\ opens = 1
             /\ \A t \in Slots :
                  /\ tasks[t].pc \in {"idle", "db", "failed"}
                  /\ tasks[t].pc = "failed" => tasks[t].result = {"OpenError"})
  /\ [][dbPromise = "rejected" => dbPromise' = "rejected" /\ opens' = opens]_vars
\* a call started after the open was rejected has rejected too
C27_Witness ==
  \E t \in Slots :
    /\ dbPromise = "rejected" /\ opens = 1
    /\ tasks[t].lateCall
    /\ tasks[t].pc = "failed" /\ tasks[t].result = {"OpenError"}


\* C28: the listener set changing during an emission.  In the callbacks one
\* emit ran, in order: after a callback unsubscribed a listener, that listener
\* is not invoked for the event unless a callback in between subscribed it
\* again; and a listener that a callback subscribed is invoked later in the
\* same emission, unless it had already been invoked and was still in the set,
\* or a callback in between unsubscribed it.
C28_SetChangesDuringEmit ==
  \A t \in Slots :
    LET h == tasks[t].heard IN
      \A i \in DOMAIN h :
        /\ h[i].did.kind = "unsubscribe"
             => \A j \in DOMAIN h :
                  (j > i /\ h[j].listener = h[i].did.l)
                  => \E k \in (i + 1)..(j - 1) :
                       h[k].did = [kind |-> "subscribe", l |-> h[i].did.l]
        /\ h[i].did.kind = "subscribe"
             => \/ \E j \in DOMAIN h : j > i /\ h[j].listener = h[i].did.l
                \/ /\ \E j \in 1..i : h[j].listener = h[i].did.l
                   /\ ~ \E k \in 1..i :
                          /\ h[k].did = [kind |-> "unsubscribe", l |-> h[i].did.l]
                          /\ \A j \in (k + 1)..i : h[j].listener # h[i].did.l
                \/ \E k \in DOMAIN h :
                     k > i /\ h[k].did = [kind |-> "unsubscribe", l |-> h[i].did.l]
\* l1, l2, l3 were subscribed in that order; l1 unsubscribed l2, so l3 ran
\* next; l3 subscribed l2 again, and l2 ran last for the same event
C28_Witness ==
  \E t \in Slots :
    /\ tasks[t].op = "remove" /\ tasks[t].pc = "done"
    /\ Len(tasks[t].heard) = 3
    /\ tasks[t].heard[1].listener = "l1"
    /\ tasks[t].heard[1].did = [kind |-> "unsubscribe", l |-> "l2"]
    /\ tasks[t].heard[2].listener = "l3"
    /\ tasks[t].heard[2].did = [kind |-> "subscribe", l |-> "l2"]
    /\ tasks[t].heard[3].listener = "l2"
    /\ {"l1", "l2", "l3"} \subseteq tasks[t].subsAtStart


\* C29: no strategy of the service worker writes a response with a
\* non-success status into a cache: every stored entry has an ok status.
C29_OnlyOkResponsesAreCached ==
  \A c \in CacheNames :
    \A k \in DOMAIN swCaches[c] : IsOk(swCaches[c][k].status)


Intercepted(e) == fetchEvents[e].pc \notin {"idle", "passed"}
Answered(e) == fetchEvents[e].answer # NoResponse

\* Where the answer of an event comes from, given what its cache lookup
\* (hit) and its fetch (net) gave: cacheFirst and staleWhileRevalidate look
\* in the cache first, networkFirst asks the network first.
ExpectedSource(e) ==
  LET ev == fetchEvents[e] IN
    IF ev.strategy = "networkFirst"
      THEN IF ev.net # "neterr" THEN "network"
           ELSE IF ev.hit = "hit" THEN "cache" ELSE "synthetic"
      ELSE IF ev.hit = "hit" THEN "cache"
           ELSE IF ev.net # "neterr" THEN "network" ELSE "synthetic"

\* C30, as claimed: every intercepted GET is answered in the end, with the
\* cached entry when the cache of its strategy has one, else with the
\* network response, else with the Offline response; other requests are not
\* intercepted.  (Violated: networkFirst answers with the network response
\* although its cache has an entry.)
C30_CacheThenNetworkThenOffline ==
  /\ [](\A e \in EventSlots :
          /\ Intercepted(e) <=> (fetchEvents[e].pc # "idle"
                                  /\ Route(fetchEvents[e].request) # "none")
          /\ Answered(e)
               => /\ fetchEvents[e].hadEntry => fetchEvents[e].answer.from = "cache"
                  /\ fetchEvents[e].answer.from = "synthetic"
                       => fetchEvents[e].net = "neterr")
  /\ \A e \in EventSlots : Intercepted(e) ~> Answered(e)


\* C30, amended: every intercepted GET is answered in the end.  cacheFirst and
\* staleWhileRevalidate answer with the cached entry when there is one, else
\* with the network response, else with the Offline response (503);
\* networkFirst answers with the network response when the fetch resolves,
\* else with the cached entry, else with the Offline response.  Requests that
\* are not GET, same-origin /api/ requests and requests to other origins are
\* not intercepted.
C30_EveryInterceptedGetIsAnswered ==
  /\ [](\A e \in EventSlots :
          /\ Intercepted(e) <=> (fetchEvents[e].pc # "idle"
                                  /\ Route(fetchEvents[e].request) # "none")
          /\ Answered(e)
               => /\ fetchEvents[e].answer.from = ExpectedSource(e)
                  /\ fetchEvents[e].answer.from = "network"
                       => fetchEvents[e].answer.status = StatusOf(fetchEvents[e].net)
                  /\ fetchEvents[e].answer.from = "synthetic"
                       => fetchEvents[e].answer.status = 503)
  /\ \A e \in EventSlots : Intercepted(e) ~> Answered(e)
\* a networkFirst event whose cache held an entry when it arrived has been
\* answered with the network response
C30_Witness ==
  \E e \in EventSlots :
    /\ fetchEvents[e].strategy = "networkFirst" /\ fetchEvents[e].hadEntry
    /\ fetchEvents[e].pc = "answered"
    /\ fetchEvents[e].answer.from = "network"

====
